---------------------------- MODULE Spec2Model ----------------------------
(***************************************************************************)
(* Verification model of the clickhouse-orm query compiler                 *)
(* (src/src/models/query-builder.ts): the mutable Q combinator, the        *)
(* copy-on-write QueryBuilder and the SQL emitter.                         *)
(*                                                                         *)
(* SQL text is modelled as a sequence of chunks whose concatenation is     *)
(* the text the code returns (Text(chunks)); the logical joiners and the   *)
(* NOT prefix are chunks of their own so that the shape of a compiled      *)
(* fragment can be inspected.                                              *)
(*                                                                         *)
(* JavaScript values are records [t, s, a, o, r, c]:                       *)
(*   t  the runtime type tag, s the result of String(value),               *)
(*   a  the elements of an array, o the entries <<key, value>> of a plain  *)
(*   object in insertion order, r a reference (index of a QueryBuilder in  *)
(*   qbs or of a Q in qs), c an array of Condition objects owned by the    *)
(*   value.  A reference to the whereConditions array of a Q is the value  *)
(*   t = "qarr": it is the same array as the Q's, not a copy.              *)
(***************************************************************************)
EXTENDS Integers, Sequences, FiniteSets, TLC

VARIABLES
    qs,     \* heap of Q instances: [whereConditions, groupCounter]
    qbs,    \* heap of QueryBuilder instances, in order of construction
    last,   \* the last call made: [op, recv, ret, threw]
    gens,   \* heap of the async generators made by createNewIterator
    loops,  \* the for-await loops and all()/first() calls begun so far
    runs,   \* the statements run against the data source, in order
    delivered,  \* the rows handed to client code: <<builder, generator, row>>
    config,     \* the ConnectionManager's configuration, as createClient sees it
    client,     \* ConnectionManager.client: a position in clients, 0 when null
    clients,    \* the clients createClient has made: "open" or "closed"
    calls       \* the calls that reached ConnectionManager.with, in order

vars == <<qs, qbs, last, gens, loops, runs, delivered,
          config, client, clients, calls>>

managerVars == <<config, client, clients, calls>>

execVars == <<gens, loops, runs, delivered, managerVars>>

ormVars == <<qs, qbs, last, gens, loops, runs, delivered>>

---------------------------------------------------------------------------
(* Bounds of the model *)

NQ == 2             \* Q instances the client code holds
MaxQCalls == 2      \* and/or/not calls made in one run
MaxBuilders == 3    \* QueryBuilder instances constructed in one run
MaxIterators == 2   \* iterators created in one run
MaxLoops == 2       \* for-await loops and all()/first() calls in one run
MaxNestCalls == 3   \* and/or/not calls in a run that nests one Q into another
MaxCounts == 2      \* count() calls in one run
MaxCalls == 1       \* calls of ConnectionManager.with made one after another
MaxConcurrent == 2  \* calls of ConnectionManager.with in progress together

---------------------------------------------------------------------------
(* Generic helpers *)

RECURSIVE Text(_)
Text(chunks) ==
    IF chunks = <<>> THEN "" ELSE Head(chunks) \o Text(Tail(chunks))

\* Array.prototype.join on rendered pieces, the separator a chunk of its own
RECURSIVE JoinChunks(_, _)
JoinChunks(parts, sep) ==
    IF parts = <<>> THEN <<>>
    ELSE IF Len(parts) = 1 THEN parts[1]
    ELSE parts[1] \o <<sep>> \o JoinChunks(Tail(parts), sep)

\* Array.prototype.join on strings
RECURSIVE JoinStr(_, _)
JoinStr(strs, sep) ==
    IF strs = <<>> THEN ""
    ELSE IF Len(strs) = 1 THEN strs[1]
    ELSE strs[1] \o sep \o JoinStr(Tail(strs), sep)

Digits == <<"0", "1", "2", "3", "4", "5", "6", "7", "8", "9">>

\* String(n) for a number n
RECURSIVE NumStr(_)
NumStr(n) ==
    IF n < 0 THEN "-" \o NumStr(0 - n)
    ELSE IF n < 10 THEN Digits[n + 1]
    ELSE NumStr(n \div 10) \o Digits[(n % 10) + 1]

---------------------------------------------------------------------------
(* JavaScript values *)

Val(t, s) == [t |-> t, s |-> s, a |-> <<>>, o |-> <<>>, r |-> 0, c |-> <<>>]

Undefined == Val("undefined", "undefined")
Null      == Val("null", "null")
Str(s)    == Val("string", s)
Num(n)    == Val("number", NumStr(n))
Bool(b)   == Val("boolean", IF b THEN "true" ELSE "false")
Func(s)   == Val("function", s)

\* String(el) of an array element inside Array.prototype.join: null and
\* undefined elements give the empty string
ElemStr(v) == IF v.t \in {"null", "undefined"} THEN "" ELSE v.s

Arr(elems) ==
    [Val("array", JoinStr([i \in 1..Len(elems) |-> ElemStr(elems[i])], ",")) EXCEPT !.a = elems]
Obj(entries) == [Val("object", "[object Object]") EXCEPT !.o = entries]
BuilderRef(i) == [Val("builder", "[object Object]") EXCEPT !.r = i]
QRef(i)       == [Val("q", "[object Object]") EXCEPT !.r = i]
CondArr(cs)   == [Val("conds", "[object Object]") EXCEPT !.c = cs]
QArr(i)       == [Val("qarr", "[object Object]") EXCEPT !.r = i]

IsNullish(v) == v.t \in {"null", "undefined"}
IsArray(v)   == v.t \in {"array", "conds", "qarr"}

\* typeof v === 'object' && v !== null && !Array.isArray(v)
IsObjectNotArray(v) == v.t \in {"object", "builder", "q"}

---------------------------------------------------------------------------
(* Operator table (operators.ts) *)

AND == "AND"
OR  == "OR"
NOT == "NOT"

SqlEQ     == "="
SqlNE     == "!="
SqlGT     == ">"
SqlLT     == "<"
SqlGTE    == ">="
SqlLTE    == "<="
SqlLIKE   == "LIKE"
SqlIN     == "IN"
SqlHAS_ANY == "HAS ANY"

\* FIELD_TO_SQL_OPERATOR[fieldOperator] || SqlOperators.EQ
FIELD_TO_SQL_OPERATOR(fieldOperator) ==
    CASE fieldOperator = ""            -> SqlEQ
      [] fieldOperator = "__gt"        -> SqlGT
      [] fieldOperator = "__lt"        -> SqlLT
      [] fieldOperator = "__gte"       -> SqlGTE
      [] fieldOperator = "__lte"       -> SqlLTE
      [] fieldOperator = "__ne"        -> SqlNE
      [] fieldOperator = "__icontains" -> SqlLIKE
      [] fieldOperator = "__in"        -> SqlIN
      [] fieldOperator = "__has_any"   -> SqlHAS_ANY
      [] OTHER                         -> SqlEQ

---------------------------------------------------------------------------
(* Field keys.  A key is the sequence of its pieces, the delimiter "__"    *)
(* being a piece of its own: "id__gt" is <<"id", "__", "gt">>.             *)

Delim == "__"

KeyText(key) == Text(key)

\* String.prototype.split('__')
RECURSIVE Split(_)
Split(key) ==
    IF key = <<>> THEN <<"">>
    ELSE IF Head(key) = Delim THEN <<"">> \o Split(Tail(key))
    ELSE LET rest == Split(Tail(key))
         IN  <<Head(key) \o Head(rest)>> \o Tail(rest)

\* BaseQueryBuilder.parseFieldAndOperator
parseFieldAndOperator(field) ==
    LET parts == Split(field)
        fieldName == parts[1]
        lookup == IF Len(parts) >= 2 THEN parts[2] ELSE ""
        fieldOperator == IF lookup # "" THEN Delim \o lookup ELSE ""
    IN  [key |-> fieldName, operator |-> FIELD_TO_SQL_OPERATOR(fieldOperator)]

---------------------------------------------------------------------------
(* Conditions *)

NoGroup == -1       \* groupId is undefined
NoLimit == -1       \* _limit is undefined
NoIterator == 0     \* _iterator is undefined

Leaf(field, value, operator, groupId) ==
    [field |-> field, value |-> value, operator |-> operator,
     logicalOperator |-> AND, groupId |-> groupId, isNested |-> FALSE]

Nested(value, operator, logicalOperator, groupId) ==
    [field |-> "", value |-> value, operator |-> operator,
     logicalOperator |-> logicalOperator, groupId |-> groupId,
     isNested |-> TRUE]

\* `%${value}%`
LikeValue(value) == Str("%" \o value.s \o "%")


---------------------------------------------------------------------------
(* Own enumerable properties of class instances, in declaration order      *)
(* (class fields are defined on the instance), as Object.entries sees them *)

\* a QueryBuilder instance b (DataRetrieval fields first)
BuilderEntries(b) ==
    << <<<<"_connectionConfig">>, Undefined>>,
       <<<<"_settings">>, Undefined>>,
       <<<<"_iterator">>, IF b._iterator = NoIterator THEN Undefined ELSE Obj(<<>>)>>,
       <<<<"tableName">>, Str(b.tableName)>>,
       <<<<"engine">>, Str(b.engine)>>,
       <<<<"whereConditions">>, CondArr(b.whereConditions)>>,
       <<<<"excludeConditions">>, CondArr(b.excludeConditions)>>,
       <<<<"_offset">>, Num(b._offset)>>,
       <<<<"_limit">>, IF b._limit = NoLimit THEN Undefined ELSE Num(b._limit)>>,
       <<<<"_project">>, Str(b._project)>>,
       <<<<"connectionConfig">>, Undefined>>,
       <<<<"baseQueryBuilder">>, Obj(<<>>)>>,
       <<<<"_final">>, Bool(b._final)>>,
       <<<<"_model">>, Func(b.tableName)>>,
       <<<<"_sort">>, b._sort>> >>

\* a Q instance q
QEntries(i, q) ==
    << <<<<"whereConditions">>, QArr(i)>>,
       <<<<"groupCounter">>, Num(q.groupCounter)>> >>

\* Object.entries(v) for a value that is an object and no array
ObjectEntries(v) ==
    CASE v.t = "object"  -> v.o
      [] v.t = "builder" -> BuilderEntries(qbs[v.r])
      [] v.t = "q"       -> QEntries(v.r, qs[v.r])
      [] OTHER           -> <<>>

---------------------------------------------------------------------------
(* class Q *)

\* the closure processNestedObject of Q.parseNestedField
RECURSIVE Q_processNestedObject(_, _)
Q_processNestedObject(entries, prefix) ==
    IF entries = <<>> THEN <<>>
    ELSE
      LET key == entries[1][1]
          val == entries[1][2]
          here ==
            IF IsObjectNotArray(val)
            THEN LET childConditions ==
                       Q_processNestedObject(ObjectEntries(val),
                                             prefix \o "." \o KeyText(key))
                 IN  IF Len(childConditions) > 0
                     THEN <<Nested(CondArr(childConditions), AND, AND, NoGroup)>>
                     ELSE <<>>
            ELSE LET p == parseFieldAndOperator(key)
                     actualField == IF prefix # "" THEN prefix \o "." \o p.key
                                    ELSE p.key
                     processedValue ==
                       IF p.operator = SqlLIKE THEN LikeValue(val)
                       ELSE IF p.operator = SqlIN
                            THEN (IF IsArray(val) THEN val ELSE Arr(<<val>>))
                            ELSE val
                 IN  <<Leaf(actualField, processedValue, p.operator, NoGroup)>>
      IN  here \o Q_processNestedObject(Tail(entries), prefix)

\* Q.parseNestedField
parseNestedField(field, value) ==
    LET nestedConditions == Q_processNestedObject(ObjectEntries(value), KeyText(field))
    IN  IF Len(nestedConditions) > 0
        THEN <<Nested(CondArr(nestedConditions), AND, AND, NoGroup)>>
        ELSE <<>>

\* Q.parseConditionField; groupCounter is this.groupCounter at the call
parseConditionField(field, value, groupCounter) ==
    LET p == parseFieldAndOperator(field)
        processedValue == IF p.operator = SqlLIKE THEN LikeValue(value) ELSE value
    IN  Leaf(p.key, processedValue, p.operator, groupCounter)

\* the entries.flatMap of Q.addCondition
RECURSIVE Q_flatMapEntries(_, _)
Q_flatMapEntries(entries, groupCounter) ==
    IF entries = <<>> THEN <<>>
    ELSE LET field == entries[1][1]
             value == entries[1][2]
         IN  (IF IsObjectNotArray(value)
              THEN parseNestedField(field, value)
              ELSE <<parseConditionField(field, value, groupCounter)>>)
             \o Q_flatMapEntries(Tail(entries), groupCounter)

\* Q.addCondition: the condition pushed onto whereConditions.  whereConds is
\* this.whereConditions and groupCounter this.groupCounter at the call.
addCondition(condition, logicalOperator, groupId, groupCounter) ==
    IF condition.t = "q"
    THEN LET its == qs[condition.r].whereConditions
             operator == IF Len(its) > 0 THEN its[1].logicalOperator ELSE AND
         IN  Nested(QArr(condition.r), operator, logicalOperator, groupId)
    ELSE LET nestedConditions == Q_flatMapEntries(ObjectEntries(condition), groupCounter)
         IN  Nested(CondArr(nestedConditions),
                    IF logicalOperator = NOT THEN AND ELSE logicalOperator,
                    logicalOperator, groupId)

\* handleConditions reusing the current GroupID instead of minting one
handleConditions_NoMint(q, conditions, logicalOperator) ==
    LET groupId == q.groupCounter
        elems == IF conditions.t = "array" THEN conditions.a ELSE <<conditions>>
        pushed == [i \in 1..Len(elems) |->
                     addCondition(elems[i], logicalOperator, groupId, groupId)]
    IN  [whereConditions |-> q.whereConditions \o pushed,
         groupCounter |-> groupId]

\* Q.handleConditions on Q instance q: the instance after the call
handleConditions(q, conditions, logicalOperator) ==
    LET groupId == q.groupCounter + 1
        elems == IF conditions.t = "array" THEN conditions.a ELSE <<conditions>>
        pushed == [i \in 1..Len(elems) |->
                     addCondition(elems[i], logicalOperator, groupId, groupId)]
    IN  [whereConditions |-> q.whereConditions \o pushed,
         groupCounter |-> groupId]


---------------------------------------------------------------------------
(* class QueryBuilder: parsing of plain filter objects *)

\* QueryBuilder.isNestedObject
isNestedObject(value) == value.t \in {"object", "q"}

\* QueryBuilder.processValue
processValue(value, operator) ==
    IF operator = SqlLIKE THEN LikeValue(value)
    ELSE IF operator = SqlIN
         THEN (IF value.t = "builder" THEN value
               ELSE IF IsArray(value) THEN value
               ELSE Arr(<<value>>))
         ELSE value

\* QueryBuilder.createSimpleCondition
createSimpleCondition(field, value, operator) ==
    Leaf(field, processValue(value, operator), operator, NoGroup)

\* QueryBuilder.processNestedObject: the conditions it pushes, in order
RECURSIVE processNestedObject(_, _)
processNestedObject(entries, prefix) ==
    IF entries = <<>> THEN <<>>
    ELSE
      LET key == entries[1][1]
          val == entries[1][2]
          p == parseFieldAndOperator(key)
          fullField == IF prefix # "" THEN prefix \o "." \o p.key ELSE p.key
          here == IF isNestedObject(val)
                  THEN processNestedObject(ObjectEntries(val), fullField)
                  ELSE <<Leaf(fullField, processValue(val, p.operator),
                              p.operator, NoGroup)>>
      IN  here \o processNestedObject(Tail(entries), prefix)

\* QueryBuilder.parseFilterCondition, as the array filter() flattens it to
parseFilterCondition(field, value) ==
    LET p == parseFieldAndOperator(field)
    IN  IF ~isNestedObject(value)
        THEN <<createSimpleCondition(p.key, value, p.operator)>>
        ELSE processNestedObject(ObjectEntries(value), p.key)

\* Object.entries(conditions).flatMap(...) of QueryBuilder.filter
RECURSIVE filterNewConditions(_)
filterNewConditions(entries) ==
    IF entries = <<>> THEN <<>>
    ELSE parseFilterCondition(entries[1][1], entries[1][2])
         \o filterNewConditions(Tail(entries))

\* Object.entries(conditions).map(...) of QueryBuilder.exclude
excludeNewConditions(entries) ==
    [i \in 1..Len(entries) |->
       Leaf(KeyText(entries[i][1]), entries[i][2], SqlNE, NoGroup)]

---------------------------------------------------------------------------
(* SQL emitter *)

\* the strings Array.prototype.join sees for the elements of an array value
ElemStrs(value) ==
    IF value.t = "array" THEN [i \in 1..Len(value.a) |-> ElemStr(value.a[i])]
    ELSE IF value.t = "qarr"
         THEN [i \in 1..Len(qs[value.r].whereConditions) |-> "[object Object]"]
         ELSE [i \in 1..Len(value.c) |-> "[object Object]"]

\* BaseQueryBuilder.formatValue
formatValue(value) ==
    IF IsNullish(value) THEN "NULL"
    ELSE IF value.t = "string" THEN "'" \o value.s \o "'"
    ELSE IF IsArray(value)
         THEN (IF Len(ElemStrs(value)) = 0 THEN "(NULL)"
               ELSE "('" \o JoinStr(ElemStrs(value), "', '") \o "')")
         ELSE value.s

\* the Condition array a nested condition refers to
CondList(value) ==
    IF value.t = "qarr" THEN qs[value.r].whereConditions ELSE value.c

\* groupId || 0
GroupOf(condition) ==
    IF condition.groupId = NoGroup THEN 0 ELSE condition.groupId

\* the keys of the reduce accumulator as Object.values enumerates them:
\* integer keys in ascending order
RECURSIVE SortedGroupIds(_)
SortedGroupIds(ids) ==
    IF ids = {} THEN <<>>
    ELSE LET m == CHOOSE x \in ids : \A y \in ids : x <= y
         IN  <<m>> \o SortedGroupIds(ids \ {m})

Select(conds, g) ==
    LET F[i \in 0..Len(conds)] ==
          IF i = 0 THEN <<>>
          ELSE IF GroupOf(conds[i]) = g THEN Append(F[i - 1], conds[i])
               ELSE F[i - 1]
    IN  F[Len(conds)]

\* Object.assign / property assignment on a record kept as entries: an
\* existing key keeps its place, a new key goes last
Put(entries, k, v) ==
    IF \E i \in 1..Len(entries) : entries[i][1] = k
    THEN [i \in 1..Len(entries) |->
            IF entries[i][1] = k THEN <<k, v>> ELSE entries[i]]
    ELSE Append(entries, <<k, v>>)

RECURSIVE Assign(_, _)
Assign(target, source) ==
    IF source = <<>> THEN target
    ELSE Assign(Put(target, source[1][1], source[1][2]), Tail(source))

RECURSIVE flattenSortData(_, _)

\* flattenSortData naming a leaf by its own key, without the path to it
flattenSortData_OwnKey(entries, prefix) ==
    IF entries = <<>> THEN <<>>
    ELSE
      LET key == entries[1][1]
          value == entries[1][2]
          fieldPath == KeyText(key)
          first == IF IsObjectNotArray(value)
                   THEN flattenSortData(ObjectEntries(value), fieldPath)
                   ELSE <<<<fieldPath, value>>>>
      IN  Assign(first, flattenSortData(Tail(entries), prefix))

\* QueryBuilder.flattenSortData: entries <<path, direction value>>
flattenSortData(entries, prefix) ==
    IF entries = <<>> THEN <<>>
    ELSE
      LET key == entries[1][1]
          value == entries[1][2]
          fieldPath == IF prefix # "" THEN prefix \o "." \o KeyText(key)
                       ELSE KeyText(key)
          first == IF IsObjectNotArray(value)
                   THEN flattenSortData(ObjectEntries(value), fieldPath)
                   ELSE <<<<fieldPath, value>>>>
      IN  Assign(first, flattenSortData(Tail(entries), prefix))

RECURSIVE buildBaseCondition(_), buildCondition(_), buildWhereClause(_), buildQuery(_)

\* buildBaseCondition joining the elements of an IN list without quotes
buildBaseCondition_BareList(condition) ==
    LET value == condition.value
    IN  IF condition.operator = SqlIN
        THEN IF value.t = "builder"
             THEN <<condition.field \o " IN (">> \o buildQuery(qbs[value.r]) \o <<")">>
             ELSE <<condition.field \o " IN " \o
                      (IF IsArray(value)
                       THEN (IF Len(ElemStrs(value)) = 0 THEN "(NULL)"
                             ELSE "(" \o JoinStr(ElemStrs(value), ", ") \o ")")
                       ELSE value.s)>>
        ELSE IF condition.operator = SqlHAS_ANY
        THEN <<"hasAny(" \o condition.field \o ", " \o
                 (IF IsArray(value)
                  THEN (IF Len(ElemStrs(value)) = 0 THEN "[]"
                        ELSE "['" \o JoinStr(ElemStrs(value), "', '") \o "']")
                  ELSE value.s) \o ")">>
        ELSE IF IsNullish(value)
        THEN <<condition.field \o " IS NULL">>
        ELSE <<condition.field \o " " \o condition.operator \o " "
                 \o formatValue(value)>>

\* BaseQueryBuilder.buildBaseCondition
buildBaseCondition(condition) ==
    LET value == condition.value
    IN  IF condition.operator = SqlIN
        THEN IF value.t = "builder"
             THEN <<condition.field \o " IN (">> \o buildQuery(qbs[value.r]) \o <<")">>
             ELSE <<condition.field \o " IN " \o
                      (IF IsArray(value)
                       THEN (IF Len(ElemStrs(value)) = 0 THEN "(NULL)"
                             ELSE "('" \o JoinStr(ElemStrs(value), "', '") \o "')")
                       ELSE value.s)>>
        ELSE IF condition.operator = SqlHAS_ANY
        THEN <<"hasAny(" \o condition.field \o ", " \o
                 (IF IsArray(value)
                  THEN (IF Len(ElemStrs(value)) = 0 THEN "[]"
                        ELSE "['" \o JoinStr(ElemStrs(value), "', '") \o "']")
                  ELSE value.s) \o ")">>
        ELSE IF IsNullish(value)
        THEN <<condition.field \o " IS NULL">>
        ELSE <<condition.field \o " " \o condition.operator \o " "
                 \o formatValue(value)>>

\* buildCondition cancelling a double negation: NOT of a single negated
\* member renders as that member without its NOT
buildCondition_CancelNot(condition) ==
    IF condition.isNested /\ IsArray(condition.value)
    THEN LET members == CondList(condition.value)
             nestedConditions ==
               JoinChunks([i \in 1..Len(members) |-> buildCondition(members[i])],
                          " " \o condition.operator \o " ")
             baseCondition == IF nestedConditions # <<>>
                              THEN <<"(">> \o nestedConditions \o <<")">>
                              ELSE <<"NULL">>
         IN  IF condition.logicalOperator = NOT
             THEN (IF Len(members) = 1 /\ members[1].logicalOperator = NOT
                   THEN buildCondition([members[1] EXCEPT !.logicalOperator = AND])
                   ELSE <<"(NOT ">> \o baseCondition \o <<")">>)
             ELSE baseCondition
    ELSE LET baseCondition == buildBaseCondition(condition)
         IN  IF condition.logicalOperator = NOT
             THEN <<"(NOT ", "(">> \o baseCondition \o <<")", ")">>
             ELSE <<"(">> \o baseCondition \o <<")">>

\* QueryBuilder.buildCondition
buildCondition(condition) ==
    IF condition.isNested /\ IsArray(condition.value)
    THEN LET members == CondList(condition.value)
             nestedConditions ==
               JoinChunks([i \in 1..Len(members) |-> buildCondition(members[i])],
                          " " \o condition.operator \o " ")
             baseCondition == IF nestedConditions # <<>>
                              THEN <<"(">> \o nestedConditions \o <<")">>
                              ELSE <<"NULL">>
         IN  IF condition.logicalOperator = NOT
             THEN <<"(NOT ">> \o baseCondition \o <<")">>
             ELSE baseCondition
    ELSE LET baseCondition == buildBaseCondition(condition)
         IN  IF condition.logicalOperator = NOT
             THEN <<"(NOT ", "(">> \o baseCondition \o <<")", ")">>
             ELSE <<"(">> \o baseCondition \o <<")">>

\* one entry of groupClauses in QueryBuilder.buildWhereClause
GroupClause(group) ==
    IF Len(group) = 1 THEN buildCondition(group[1])
    ELSE <<"(">>
         \o JoinChunks([i \in 1..Len(group) |-> buildCondition(group[i])],
                       " " \o group[1].logicalOperator \o " ")
         \o <<")">>

\* buildWhereClause joining the groups with AND
buildWhereClause_AndGroups(conditions) ==
    IF Len(conditions) = 0 THEN <<>>
    ELSE LET ids == SortedGroupIds({GroupOf(conditions[i]) : i \in 1..Len(conditions)})
             groupClauses == [k \in 1..Len(ids) |-> GroupClause(Select(conditions, ids[k]))]
         IN  IF Len(groupClauses) > 1
             THEN <<"(">> \o JoinChunks(groupClauses, " AND ") \o <<")">>
             ELSE groupClauses[1]

\* QueryBuilder.buildWhereClause
buildWhereClause(conditions) ==
    IF Len(conditions) = 0 THEN <<>>
    ELSE LET ids == SortedGroupIds({GroupOf(conditions[i]) : i \in 1..Len(conditions)})
             groupClauses == [k \in 1..Len(ids) |-> GroupClause(Select(conditions, ids[k]))]
         IN  IF Len(groupClauses) > 1
             THEN <<"(">> \o JoinChunks(groupClauses, " OR ") \o <<")">>
             ELSE groupClauses[1]

\* buildSort of QueryBuilder.buildQuery
buildSort(b) ==
    IF Len(ObjectEntries(b._sort)) = 0 THEN <<>>
    ELSE LET flattenedSort == flattenSortData(ObjectEntries(b._sort), "")
         IN  <<" ORDER BY ">>
             \o JoinChunks([i \in 1..Len(flattenedSort) |->
                              <<flattenedSort[i][1] \o " " \o
                                (IF flattenedSort[i][2] = Num(-1) THEN "DESC" ELSE "ASC")>>],
                           ", ")

\* buildQuery appending OFFSET before LIMIT
buildQuery_OffsetFirst(b) ==
    LET whereClause == buildWhereClause(b.whereConditions \o b.excludeConditions)
    IN  <<"SELECT ", b._project, " FROM ", b.tableName, " ">>
        \o (IF b._final THEN <<"FINAL ">> ELSE <<>>)
        \o (IF whereClause # <<>> THEN <<"WHERE ">> \o whereClause ELSE <<>>)
        \o buildSort(b)
        \o (IF b._offset # 0 THEN <<" OFFSET ", NumStr(b._offset)>> ELSE <<>>)
        \o (IF b._limit # NoLimit /\ b._limit # 0
            THEN <<" LIMIT ", NumStr(b._limit)>> ELSE <<>>)

\* QueryBuilder.buildQuery on instance b
buildQuery(b) ==
    LET whereClause == buildWhereClause(b.whereConditions \o b.excludeConditions)
    IN  <<"SELECT ", b._project, " FROM ", b.tableName, " ">>
        \o (IF b._final THEN <<"FINAL ">> ELSE <<>>)
        \o (IF whereClause # <<>> THEN <<"WHERE ">> \o whereClause ELSE <<>>)
        \o buildSort(b)
        \o (IF b._limit # NoLimit /\ b._limit # 0
            THEN <<" LIMIT ", NumStr(b._limit)>> ELSE <<>>)
        \o (IF b._offset # 0 THEN <<" OFFSET ", NumStr(b._offset)>> ELSE <<>>)

\* QueryBuilder.getQuery on the instance at index i
getQuery(i) == Text(buildQuery(qbs[i]))


---------------------------------------------------------------------------
(* Aggregation operators (aggregation.ts) *)

\* new Sum(field, alias) and the like; alias "" stands for no alias
Fn(name, field, alias) ==
    [kind |-> "fn", name |-> name, field |-> field, args |-> <<>>,
     operator |-> "", alias |-> alias]

\* an aggregation function over another aggregation node
FnOf(name, node, alias) ==
    [kind |-> "fn", name |-> name, field |-> "", args |-> <<node>>,
     operator |-> "", alias |-> alias]

\* new ArithmeticOperator(left, operator, right, alias)
Arith(left, operator, right, alias) ==
    [kind |-> "arith", name |-> "", field |-> "", args |-> <<left, right>>,
     operator |-> operator, alias |-> alias]

\* AggregationOperator.getSql of the subclasses
RECURSIVE getSql(_)
getSql(agg) ==
    IF agg.kind = "fn"
    THEN agg.name \o "("
         \o (IF agg.args # <<>> THEN getSql(agg.args[1]) ELSE agg.field) \o ")"
    ELSE LET sql == "(" \o getSql(agg.args[1]) \o " " \o agg.operator \o " "
                    \o getSql(agg.args[2]) \o ")"
         IN  IF agg.alias # "" THEN sql \o " as " \o agg.alias ELSE sql

---------------------------------------------------------------------------
(* class QueryBuilder: construction and mutators *)

Has(options, k) == k \in DOMAIN options

\* { ...a, ...b }
Merge(a, b) ==
    [k \in (DOMAIN a) \cup (DOMAIN b) |-> IF k \in DOMAIN b THEN b[k] ELSE a[k]]

\* QueryBuilder constructor
QueryBuilder(model, options) ==
    [_model |-> model,
     tableName |-> model.tableName,
     engine |-> model.engine,
     whereConditions |->
        IF Has(options, "whereConditions") THEN options.whereConditions ELSE <<>>,
     excludeConditions |->
        IF Has(options, "excludeConditions") THEN options.excludeConditions ELSE <<>>,
     _offset |->
        IF Has(options, "offset") THEN options.offset ELSE 0,
     _limit |-> IF Has(options, "limit") THEN options.limit ELSE NoLimit,
     _project |->
        IF Has(options, "project") /\ options.project # "" THEN options.project ELSE "*",
     _final |-> FALSE,
     _iterator |-> NoIterator,
     _sort |-> IF Has(options, "_sort") THEN options._sort ELSE Obj(<<>>)]

\* QueryBuilder.clone
clone(b, options) ==
    QueryBuilder(b._model,
                 Merge([whereConditions |-> b.whereConditions,
                        excludeConditions |-> b.excludeConditions,
                        offset |-> b._offset,
                        limit |-> b._limit,
                        project |-> b._project,
                        _sort |-> b._sort],
                       options))

\* QueryBuilder.project
project(b, projects) ==
    LET statements ==
          [i \in 1..Len(projects) |->
             IF projects[i].t = "string" THEN projects[i].s
             ELSE KeyText(projects[i].o[1][1]) \o " as " \o projects[i].o[1][2].s]
    IN  clone(b, [project |-> JoinStr(statements, ", ")])

\* QueryBuilder.offset
offset(b, n) == clone(b, [offset |-> n])

\* QueryBuilder.limit
limit(b, n) == clone(b, [limit |-> n])

\* QueryBuilder.filter
filter(b, conditions) ==
    IF conditions.t = "q"
    THEN clone(b, [whereConditions |->
                     b.whereConditions \o qs[conditions.r].whereConditions])
    ELSE clone(b, [whereConditions |->
                     b.whereConditions
                     \o filterNewConditions(ObjectEntries(conditions))])

\* exclude putting the conditions of a plain object into a group of their own
exclude_OwnGroup(b, conditions) ==
    IF conditions.t = "q"
    THEN clone(b, [excludeConditions |->
                     b.excludeConditions \o qs[conditions.r].whereConditions])
    ELSE clone(b, [excludeConditions |->
                     b.excludeConditions
                     \o [i \in 1..Len(ObjectEntries(conditions)) |->
                           [excludeNewConditions(ObjectEntries(conditions))[i]
                              EXCEPT !.groupId = 1]]])

\* QueryBuilder.exclude
exclude(b, conditions) ==
    IF conditions.t = "q"
    THEN clone(b, [excludeConditions |->
                     b.excludeConditions \o qs[conditions.r].whereConditions])
    ELSE clone(b, [excludeConditions |->
                     b.excludeConditions
                     \o excludeNewConditions(ObjectEntries(conditions))])

\* QueryBuilder.sort
sort(b, sortData) ==
    clone(b, [_sort |-> Obj(Assign(ObjectEntries(b._sort), ObjectEntries(sortData)))])

\* QueryBuilder.aggregate; aggregations is the entries <<key, node>> of the map
aggregate(b, aggregations) ==
    LET parts == [i \in 1..Len(aggregations) |->
                    LET key == aggregations[i][1]
                        agg == aggregations[i][2]
                        alias == IF agg.alias # "" THEN agg.alias ELSE key
                    IN  getSql(agg) \o " as " \o alias]
    IN  clone(b, [project |-> JoinStr(parts, ", ")])

REPLACING_MERGE_TREE == "ReplacingMergeTree"
MERGE_TREE == "MergeTree"

\* final() accepting every engine of the MergeTree family
finalThrows_Family(b) == b.engine \notin {REPLACING_MERGE_TREE, MERGE_TREE}

\* QueryBuilder.final: does the call throw
finalThrows(b) == b.engine # REPLACING_MERGE_TREE

\* QueryBuilder.final: the receiver after a call that does not throw
final(b) == [b EXCEPT !._final = TRUE]


---------------------------------------------------------------------------
(* State, initial state and the calls client code makes *)

UserModel  == [tableName |-> "users",  engine |-> MERGE_TREE]
EventModel == [tableName |-> "events", engine |-> REPLACING_MERGE_TREE]
Models == {UserModel, EventModel}

NoOptions == <<>>

\* new Q()
NewQ == [whereConditions |-> <<>>, groupCounter |-> 0]

Call(op, recv, arg, ret, threw) ==
    [op |-> op, recv |-> recv, arg |-> arg, ret |-> ret, threw |-> threw]

QIds == 1..NQ
BuilderIds == 1..Len(qbs)

\* the client holds NQ fresh Q instances and model.objects
\* new ConnectionManager(config): no client yet, no call made
InitManager(createErrors) ==
    /\ \E e \in createErrors : config = [createError |-> e]
    /\ client = 0
    /\ clients = <<>>
    /\ calls = <<>>

InitHeaps(models) ==
    /\ qs = [i \in QIds |-> NewQ]
    /\ \E m \in models : qbs = <<QueryBuilder(m, NoOptions)>>
    /\ last = Call("new", 0, Undefined, 1, FALSE)
    /\ gens = <<>>
    /\ loops = <<>>
    /\ runs = <<>>
    /\ delivered = <<>>

InitOn(models) == InitHeaps(models) /\ InitManager({<<>>})

Init == InitOn({UserModel})

RECURSIVE SumCounters(_)
SumCounters(i) == IF i = 0 THEN 0 ELSE qs[i].groupCounter + SumCounters(i - 1)

\* q.and(x), q.or(x), q.not(x) on the Q instance i, while the client has
\* made fewer than n such calls
QCallWithin(n, i, logicalOperator, x) ==
    /\ SumCounters(NQ) < n
    /\ qs' = [qs EXCEPT ![i] = handleConditions(qs[i], x, logicalOperator)]
    /\ last' = Call(logicalOperator, i, x, i, FALSE)
    /\ UNCHANGED qbs
    /\ UNCHANGED execVars

QCall(i, logicalOperator, x) == QCallWithin(MaxQCalls, i, logicalOperator, x)

\* a mutator of builder i that returns the new instance made by clone
Derive(op, i, arg, made) ==
    /\ Len(qbs) < MaxBuilders
    /\ qbs' = Append(qbs, made)
    /\ last' = Call(op, i, arg, Len(qbs) + 1, FALSE)
    /\ UNCHANGED qs
    /\ UNCHANGED execVars

Filter(i, x)  == Derive("filter", i, x, filter(qbs[i], x))
Exclude(i, x) == Derive("exclude", i, x, exclude(qbs[i], x))
Project(i, p) == Derive("project", i, Arr(p), project(qbs[i], p))
Limit(i, n)   == Derive("limit", i, Num(n), limit(qbs[i], n))
Offset(i, n)  == Derive("offset", i, Num(n), offset(qbs[i], n))
Sort(i, x)    == Derive("sort", i, x, sort(qbs[i], x))
Aggregate(i, a) == Derive("aggregate", i, a, aggregate(qbs[i], a))

\* builder.final()
Final(i) ==
    /\ IF finalThrows(qbs[i])
       THEN /\ last' = Call("final", i, Undefined, 0, TRUE)
            /\ UNCHANGED qbs
       ELSE /\ qbs' = [qbs EXCEPT ![i] = final(qbs[i])]
            /\ last' = Call("final", i, Undefined, i, FALSE)
    /\ UNCHANGED qs
    /\ UNCHANGED execVars

---------------------------------------------------------------------------
(* Execution: class DataRetrieval and the data source *)

\* the rows of the table in the data source
Table == <<1, 2>>

\* the row stream the data source gives for the statement of builder b:
\* the table after OFFSET and LIMIT
ResultOf(b) ==
    LET from == IF b._offset < Len(Table) THEN b._offset + 1 ELSE Len(Table) + 1
        rest == SubSeq(Table, from, Len(Table))
    IN  IF b._limit # NoLimit /\ b._limit # 0 /\ b._limit < Len(rest)
        THEN SubSeq(rest, 1, b._limit)
        ELSE rest

\* the generator object createNewIterator() returns: its body has not begun
createNewIterator(i) ==
    [builder |-> i, started |-> FALSE, rows |-> <<>>, pos |-> 0, done |-> FALSE]

\* one next() on the generator g of createNewIterator, on the heaps bs, gs
\* and the run log rs: the first one builds the statement of its builder and
\* runs it, every one yields the next row or finishes.  value 0 stands for
\* no value (done)
GenNext(bs, gs, rs, g) ==
    LET gen == gs[g]
        rows == IF gen.started THEN gen.rows ELSE ResultOf(bs[gen.builder])
        rs1 == IF gen.started THEN rs
               ELSE Append(rs, Text(buildQuery(bs[gen.builder])))
    IN  IF gen.done
        THEN [gens |-> gs, runs |-> rs, done |-> TRUE, value |-> 0]
        ELSE IF gen.pos < Len(rows)
        THEN [gens |-> [gs EXCEPT ![g] = [gen EXCEPT !.started = TRUE,
                                                     !.rows = rows,
                                                     !.pos = gen.pos + 1]],
              runs |-> rs1, done |-> FALSE, value |-> rows[gen.pos + 1]]
        ELSE [gens |-> [gs EXCEPT ![g] = [gen EXCEPT !.started = TRUE,
                                                     !.rows = rows,
                                                     !.done = TRUE]],
              runs |-> rs1, done |-> TRUE, value |-> 0]

\* this._iterator = this.createNewIterator(), whatever _iterator holds
EnsureIterator_Fresh(bs, gs, i) ==
    [qbs |-> [bs EXCEPT ![i]._iterator = Len(gs) + 1],
     gens |-> Append(gs, createNewIterator(i)),
     g |-> Len(gs) + 1]

\* this._iterator = this._iterator ?? this.createNewIterator() on builder i
EnsureIterator(bs, gs, i) ==
    IF bs[i]._iterator = NoIterator
    THEN [qbs |-> [bs EXCEPT ![i]._iterator = Len(gs) + 1],
          gens |-> Append(gs, createNewIterator(i)),
          g |-> Len(gs) + 1]
    ELSE [qbs |-> bs, gens |-> gs, g |-> bs[i]._iterator]

\* await builder.next(): ret is the row, 0 for undefined
NextCall(i) ==
    /\ qbs[i]._iterator # NoIterator \/ Len(gens) < MaxIterators
    /\ LET e == EnsureIterator(qbs, gens, i)
           r == GenNext(e.qbs, e.gens, runs, e.g)
       IN  /\ qbs' = e.qbs
           /\ gens' = r.gens
           /\ runs' = r.runs
           /\ delivered' = IF r.done THEN delivered
                           ELSE Append(delivered, <<i, e.g, r.value>>)
           /\ last' = Call("next", i, Undefined, r.value, FALSE)
    /\ UNCHANGED <<managerVars, qs, loops>>

\* builder.resetIterator()
ResetIterator(i) ==
    /\ qbs' = [qbs EXCEPT ![i]._iterator = NoIterator]
    /\ last' = Call("resetIterator", i, Undefined, 0, FALSE)
    /\ UNCHANGED <<managerVars, qs, gens, loops, runs, delivered>>

\* a loop over a builder after a pull with outcome r: the row goes to the
\* loop body (for await) or onto the result array (all)
LoopAfter(loop, r) ==
    IF r.done THEN [loop EXCEPT !.state = "done"]
    ELSE [loop EXCEPT !.got = Append(loop.got, r.value)]

\* builder[Symbol.asyncIterator]() begins on builder i of the heap bs: it
\* sets this._iterator and makes its first pull
StartLoop(kind, i, bs, op, recv) ==
    /\ Len(loops) < MaxLoops
    /\ bs[i]._iterator # NoIterator \/ Len(gens) < MaxIterators
    /\ LET e == EnsureIterator(bs, gens, i)
           r == GenNext(e.qbs, e.gens, runs, e.g)
           loop == [builder |-> i, kind |-> kind, got |-> <<>>, state |-> "active"]
       IN  /\ qbs' = e.qbs
           /\ gens' = r.gens
           /\ runs' = r.runs
           /\ delivered' = IF r.done THEN delivered
                           ELSE Append(delivered, <<i, e.g, r.value>>)
           /\ loops' = Append(loops, LoopAfter(loop, r))
           /\ last' = Call(op, recv, Undefined, r.value, FALSE)
    /\ UNCHANGED <<qs, managerVars>>

\* for await (const row of builder) begins
ForAwait(i) == StartLoop("for", i, qbs, "forAwait", i)

\* builder.all() begins
All(i) == StartLoop("all", i, qbs, "all", i)

\* builder.first() begins: this.limit(1).settings(...).all()
First(i) ==
    /\ Len(qbs) < MaxBuilders
    /\ StartLoop("first", Len(qbs) + 1, Append(qbs, limit(qbs[i], 1)), "first", i)

\* the next turn of the while (true) of [Symbol.asyncIterator] in loop l:
\* this._iterator.next(), a TypeError when _iterator is undefined by now
LoopPull(l) ==
    /\ loops[l].state = "active"
    /\ LET i == loops[l].builder
       IN  IF qbs[i]._iterator = NoIterator
           THEN /\ loops' = [loops EXCEPT ![l].state = "threw"]
                /\ last' = Call("pull", l, Undefined, 0, TRUE)
                /\ UNCHANGED <<qbs, gens, runs, delivered>>
           ELSE LET r == GenNext(qbs, gens, runs, qbs[i]._iterator)
                IN  /\ gens' = r.gens
                    /\ runs' = r.runs
                    /\ delivered' = IF r.done THEN delivered
                                    ELSE Append(delivered,
                                                <<i, qbs[i]._iterator, r.value>>)
                    /\ loops' = [loops EXCEPT ![l] = LoopAfter(loops[l], r)]
                    /\ last' = Call("pull", l, Undefined, r.value, FALSE)
                    /\ UNCHANGED qbs
    /\ UNCHANGED <<qs, managerVars>>

\* break out of a for-await loop: the wrapper generator returns, the
\* builder's iterator stays as it is
LoopBreak(l) ==
    /\ loops[l].state = "active"
    /\ loops[l].kind = "for"
    /\ loops' = [loops EXCEPT ![l].state = "broken"]
    /\ last' = Call("break", l, Undefined, 0, FALSE)
    /\ UNCHANGED <<managerVars, qs, qbs, gens, runs, delivered>>

LoopIds == 1..Len(loops)

\* the rows the data source gives for the count statement of builder b: the
\* one row holding the number of rows of the table, after OFFSET and LIMIT
CountRowsOf(b) ==
    LET rows == <<Len(Table)>>
        from == IF b._offset < Len(rows) THEN b._offset + 1 ELSE Len(rows) + 1
        rest == SubSeq(rows, from, Len(rows))
    IN  IF b._limit # NoLimit /\ b._limit # 0 /\ b._limit < Len(rest)
        THEN SubSeq(rest, 1, b._limit)
        ELSE rest

\* getQuery().replace(/^SELECT\s+.+?\s+FROM/i, 'SELECT COUNT(*) as count FROM')
\* on the chunks of buildQuery: the projection between the leading SELECT
\* and the first FROM gives way to COUNT(*) as count
countQuery(b) ==
    LET query == buildQuery(b)
        k == CHOOSE n \in 3..Len(query) :
                /\ query[n] = " FROM "
                /\ \A m \in 3..(n - 1) : query[m] # " FROM "
    IN  <<"SELECT ", "COUNT(*) as count", " FROM ">>
        \o SubSeq(query, k + 1, Len(query))

\* await builder.count(): runs the count statement and reads the first row
Count(i) ==
    /\ Len(runs) < MaxCounts
    /\ runs' = Append(runs, Text(countQuery(qbs[i])))
    /\ last' = Call("count", i, Undefined,
                    IF CountRowsOf(qbs[i]) = <<>> THEN 0 ELSE CountRowsOf(qbs[i])[1],
                    FALSE)
    /\ UNCHANGED <<managerVars, qs, qbs, gens, loops, delivered>>

---------------------------------------------------------------------------
(* Inputs *)

kId   == <<"id">>
kName == <<"name">>

oId(n)   == Obj(<< <<kId, Num(n)>> >>)
oName(s) == Obj(<< <<kName, Str(s)>> >>)

\* arguments of and/or/not on Q i: a filter object, an array of filter
\* objects, the next Q instance (a Q is never nested into itself)
QArgs(i, logicalOperator) ==
    (IF logicalOperator = NOT THEN {oId(1)}
     ELSE {Arr(<<oId(1), oName("John")>>)})
    \cup (IF i < NQ THEN {QRef(i + 1)} ELSE {})

QStep == \E i \in QIds : \E lop \in {AND, OR, NOT} :
            \E x \in QArgs(i, lop) : QCall(i, lop, x)

FilterQ  == \E i \in BuilderIds : \E j \in QIds : Filter(i, QRef(j))
ExcludeQ == \E i \in BuilderIds : \E j \in QIds : Exclude(i, QRef(j))

Next == QStep \/ FilterQ \/ ExcludeQ

Spec == Init /\ [][Next]_vars

\* the combinator alone, with every shape of argument
QArgsAll(i, logicalOperator) ==
    {oId(1)} \cup QArgs(i, logicalOperator)

QStepAll == \E i \in QIds : \E lop \in {AND, OR, NOT} :
               \E x \in QArgsAll(i, lop) : QCall(i, lop, x)

NextQ == QStepAll

SpecQ == Init /\ [][NextQ]_vars


\* statements chained from Model.objects by filter()/exclude() calls that
\* take Q trees built from one and/or/not call shape each, or a plain object
WhereQArgs(logicalOperator) ==
    IF logicalOperator = NOT THEN {oId(1)} ELSE {Arr(<<oId(1), oName("John")>>)}

WhereQStep == \E i \in QIds : \E lop \in {AND, OR, NOT} :
                 \E x \in WhereQArgs(lop) : QCall(i, lop, x)
FilterChain  == \E x \in {QRef(j) : j \in QIds} \cup {oId(2)} : Filter(Len(qbs), x)
ExcludeChain == \E j \in QIds : Exclude(Len(qbs), QRef(j))

NextWhere == WhereQStep \/ FilterChain \/ ExcludeChain

SpecWhere == Init /\ [][NextWhere]_vars

\* negations: not() of a filter object or of the next Q, or() as a tree
\* that is no negation, and Model.objects.filter(q)
NotArgs(i, logicalOperator) ==
    IF logicalOperator = OR THEN {Arr(<<oId(1), oName("John")>>)}
    ELSE {oId(1), Obj(<<>>)} \cup (IF i < NQ THEN {QRef(i + 1)} ELSE {})

NotStep == \E i \in QIds : \E lop \in {NOT, OR} :
              \E x \in NotArgs(i, lop) : QCall(i, lop, x)
FilterRoot == \E j \in QIds : Filter(1, QRef(j))

NextNot == NotStep \/ FilterRoot

SpecNot == Init /\ [][NextNot]_vars

\* every mutator of the statement builder, on either kind of table
kCreatedAt == <<"createdAt">>
kIsActive  == <<"isActive">>

SortSpecs == {Obj(<< <<kCreatedAt, Num(-1)>> >>), Obj(<< <<kIsActive, Num(1)>> >>)}
Projections == {<<Str("id"), Obj(<< <<kName, Str("userName")>> >>)>>}
Aggregations == {<< <<"total", Fn("SUM", "price", "")>> >>}

FilterAny  == \E i \in BuilderIds : \E x \in {oId(1), QRef(1)} : Filter(i, x)
ExcludeAny == \E i \in BuilderIds : \E x \in {oName("John"), QRef(1)} : Exclude(i, x)
ProjectAny == \E i \in BuilderIds : \E p \in Projections : Project(i, p)
LimitAny   == \E i \in BuilderIds : Limit(i, 10)
OffsetAny  == \E i \in BuilderIds : Offset(i, 5)
SortAny    == \E i \in BuilderIds : \E x \in SortSpecs : Sort(i, x)
AggregateAny == \E i \in BuilderIds : \E a \in Aggregations : Aggregate(i, a)
FinalAny   == \E i \in BuilderIds : Final(i)
QStepOne   == \E lop \in {AND, OR, NOT} : \E x \in QArgs(1, lop) : QCall(1, lop, x)

NextMut ==
    \/ FilterAny \/ ExcludeAny \/ ProjectAny \/ LimitAny \/ OffsetAny
    \/ SortAny \/ AggregateAny \/ FinalAny \/ QStepOne

SpecMut == InitOn(Models) /\ [][NextMut]_vars

\* statements made by filter()/exclude() calls that take plain objects only
kPriceGt == <<"price", "__", "gt">>
kStatus  == <<"status">>
kIdIn    == <<"id", "__", "in">>
kIdGt    == <<"id", "__", "gt">>
kA == <<"a">>
kB == <<"b">>
kC == <<"c">>

oOne(k, v) == Obj(<< <<k, v>> >>)

PlainFilters ==
    { oOne(kPriceGt, Num(100)),
      Obj(<< <<kId, Num(1)>>, <<kName, Str("John")>> >>),
      oOne(kA, Obj(<< <<kB, Num(1)>>, <<kC, Num(2)>> >>)),
      oOne(kName, Null),
      oOne(kIdIn, Arr(<<Num(1), Num(2)>>)) }

PlainExcludes ==
    { oOne(kStatus, Str("inactive")),
      Obj(<< <<kId, Num(3)>>, <<kName, Str("Bob")>> >>),
      oOne(kIdGt, Num(1)),
      oOne(kName, Null) }

FilterPlain  == \E i \in BuilderIds : \E x \in PlainFilters : Filter(i, x)
ExcludePlain == \E i \in BuilderIds : \E x \in PlainExcludes : Exclude(i, x)

NextPlain == FilterPlain \/ ExcludePlain

SpecPlain == Init /\ [][NextPlain]_vars

\* filter objects with every kind of value: null/undefined under each
\* operator suffix, nested objects, arrays and a sub-query
kNameIcontains == <<"name", "__", "icontains">>
kTagsHasAny    == <<"tags", "__", "has_any">>
kIdNe          == <<"id", "__", "ne">>
kAGt           == <<"a", "__", "gt">>

LeafObjects ==
    { oId(1),
      oOne(kName, Undefined),
      oOne(kIdNe, Null),
      oOne(kNameIcontains, Null),
      oOne(kIdIn, Null),
      oOne(kTagsHasAny, Null),
      oOne(kA, oOne(kB, oOne(kC, Num(1)))),
      oOne(kAGt, oOne(kB, Num(1))),
      oOne(kIdIn, Arr(<<Num(1), Num(2)>>)),
      oOne(kIdIn, BuilderRef(1)) }

FilterLeaf  == \E x \in LeafObjects : Filter(Len(qbs), x)
ExcludeLeaf == \E x \in {oOne(kName, Null), oOne(kStatus, Str("inactive"))} :
                  Exclude(Len(qbs), x)
QStepLeaf   == \E lop \in {AND, OR, NOT} : \E x \in LeafObjects : QCall(1, lop, x)

NextLeaf == FilterLeaf \/ ExcludeLeaf \/ QStepLeaf

SpecLeaf == Init /\ [][NextLeaf]_vars


\* IN lists: filter() and Q calls with arrays of numbers, of strings and of both
kNameIn == <<"name", "__", "in">>

InObjects ==
    { oOne(kIdIn, Arr(<<Num(1), Num(2), Num(3)>>)),
      oOne(kNameIn, Arr(<<Str("John"), Str("Jane")>>)),
      oOne(kIdIn, Arr(<<Num(7), Str("x")>>)),
      oOne(kA, oOne(kIdIn, Arr(<<Num(5)>>))) }

FilterIn == \E x \in InObjects : Filter(Len(qbs), x)
QStepIn  == \E lop \in {OR, NOT} : \E x \in InObjects : QCall(1, lop, x)

NextIn == FilterIn \/ QStepIn

SpecIn == Init /\ [][NextIn]_vars

\* keys of every shape: no delimiter, each suffix of the operator table, an
\* unknown suffix, an empty suffix and suffixes holding the delimiter again
Suffixes ==
    { <<>>, <<"__", "gt">>, <<"__", "lt">>, <<"__", "gte">>, <<"__", "lte">>,
      <<"__", "ne">>, <<"__", "icontains">>, <<"__", "in">>, <<"__", "has_any">>,
      <<"__", "contains">>, <<"__">>, <<"__", "gt", "__", "x">>,
      <<"__", "name", "__", "gt">>, <<"__", "_gt">> }

KeyObjects == {oOne(<<"id">> \o sfx, Num(1)) : sfx \in Suffixes}

FilterKey == \E x \in KeyObjects : Filter(Len(qbs), x)
QStepKey  == \E x \in {oOne(<<"id">> \o sfx, Num(1)) :
                         sfx \in {<<>>, <<"__", "gt">>, <<"__", "gt", "__", "x">>}} :
                QCall(1, AND, x)

NextKey == FilterKey \/ QStepKey

SpecKey == Init /\ [][NextKey]_vars

\* pulling rows: next(), for await, all() and resetIterator() on Model.objects
NextAny   == \E i \in BuilderIds : NextCall(i)
ResetAny  == \E i \in BuilderIds : ResetIterator(i)
ForAwaitAny == \E i \in BuilderIds : ForAwait(i)
AllAny    == \E i \in BuilderIds : All(i)
PullAny   == \E l \in LoopIds : LoopPull(l)
BreakAny  == \E l \in LoopIds : LoopBreak(l)

NextIter == NextAny \/ ResetAny \/ ForAwaitAny \/ AllAny \/ PullAny \/ BreakAny

SpecIter == Init /\ [][NextIter]_vars

\* final() among the other chained calls and first(), on either kind of table
FilterOne    == \E i \in BuilderIds : Filter(i, oId(1))
ExcludeOne   == \E i \in BuilderIds : Exclude(i, oName("John"))
SortOne      == \E i \in BuilderIds : Sort(i, Obj(<< <<kCreatedAt, Num(-1)>> >>))
FirstAny     == \E i \in BuilderIds : First(i)

NextFinal ==
    \/ FinalAny \/ FilterOne \/ ExcludeOne \/ SortOne \/ LimitAny \/ OffsetAny
    \/ ProjectAny \/ AggregateAny \/ FirstAny

SpecFinal == InitOn(Models) /\ [][NextFinal]_vars

\* sort() with flat and nested sort specifications
kD == <<"d">>

NestedSortSpecs ==
    { Obj(<< <<kA, oOne(kB, Num(-1))>>, <<kC, Num(1)>> >>),
      Obj(<< <<kA, Obj(<< <<kB, oOne(kC, Num(1))>>, <<kD, Num(-1)>> >>)>>,
             <<kId, Num(-1)>> >>),
      Obj(<< <<kCreatedAt, Num(-1)>>, <<kIsActive, Num(1)>> >>),
      oOne(kA, Obj(<<>>)),
      oOne(kName, Num(1)) }

SortNested == \E i \in BuilderIds : \E x \in NestedSortSpecs : Sort(i, x)

NextSort == SortNested \/ FilterOne \/ LimitAny \/ OffsetAny

SpecSort == Init /\ [][NextSort]_vars

\* aggregate() over function-call and arithmetic nodes, with and without
\* aliases of their own
SumPrice == Fn("SUM", "price", "")
SumQuantity == Fn("SUM", "quantity", "")

AggregationMaps ==
    { << <<"total", SumPrice>> >>,
      << <<"total", Fn("SUM", "price", "total_revenue")>>,
         <<"avg_price", Fn("AVG", "price", "")>> >>,
      << <<"deep", FnOf("MAX", Fn("AVG", "price", "inner"), "")>> >>,
      << <<"calc", Arith(Arith(SumPrice, "*", SumQuantity, ""), "+",
                         Arith(SumPrice, "/", SumQuantity, ""), "")>> >>,
      << <<"calc", Arith(SumPrice, "+", SumQuantity, "both")>> >>,
      << <<"calc", Arith(Arith(SumPrice, "*", SumQuantity, "product"), "-",
                         SumPrice, "")>> >> }

AggregateMap == \E i \in BuilderIds : \E a \in AggregationMaps : Aggregate(i, a)

NextAgg == AggregateMap \/ FilterOne \/ LimitAny \/ OffsetAny

SpecAgg == Init /\ [][NextAgg]_vars

\* IN and HAS_ANY with scalars, arrays and a sub-query, at the top of a
\* filter object and nested, through filter() and through and/or/not
ScalarSetObjects ==
    { oOne(kIdIn, Num(5)),
      oOne(kA, oOne(kIdIn, Num(5))),
      oOne(kTagsHasAny, Str("x")),
      oOne(kA, oOne(kTagsHasAny, Str("x"))),
      oOne(kIdIn, Arr(<<Num(1), Num(2)>>)),
      oOne(kTagsHasAny, Arr(<<Str("x")>>)),
      oOne(kIdIn, BuilderRef(1)) }

FilterScalar == \E x \in ScalarSetObjects : Filter(Len(qbs), x)
QStepScalar  == \E lop \in {AND, OR, NOT} : \E x \in ScalarSetObjects :
                   QCall(1, lop, x)

NextCoerce == FilterScalar \/ QStepScalar \/ FilterRoot

SpecCoerce == Init /\ [][NextCoerce]_vars

\* a Q built by up to two and/or/not calls, used as the argument of
\* filter() and nested into another Q
InnerStep == \E lop \in {AND, OR, NOT} : \E x \in WhereQArgs(lop) :
                QCallWithin(MaxNestCalls, NQ, lop, x)
NestStep  == \E lop \in {AND, OR} : QCallWithin(MaxNestCalls, 1, lop, QRef(NQ))
FilterInner == Filter(1, QRef(NQ))

NextNest == InnerStep \/ NestStep \/ FilterInner

SpecNest == Init /\ [][NextNest]_vars

\* count() on statements with conditions, a sort, a limit and an offset
CountAny == \E i \in BuilderIds : Count(i)

NextCount == CountAny \/ FilterOne \/ SortOne \/ LimitAny \/ OffsetAny

SpecCount == Init /\ [][NextCount]_vars

----------------------------------------------------------------------------
(* ConnectionManager: with(), initializeClient(), resetClient() *)

\* an Error object: its message as a sequence of chunks
Error(name, message, code) ==
    [name |-> name, message |-> message, code |-> code, originalError |-> <<>>]

\* a ConnectionError that keeps no originalError
ConnectionError_NoOriginal(message, originalError) ==
    [name |-> "ConnectionError", message |-> message, code |-> "",
     originalError |-> <<>>]

\* new ConnectionError(message, originalError, false)
ConnectionError(message, originalError) ==
    [name |-> "ConnectionError", message |-> message, code |-> "",
     originalError |-> <<originalError>>]

\* errors the data-source client raises
SocketError == Error("Error", <<"read ", "ECONNRESET">>, "ECONNRESET")
TimeoutError == Error("Error", <<"Timeout error.">>, "")
SchemaError == Error("ClickHouseError", <<"Unknown table ", "users">>, "60")
ClientErrors == {SocketError, TimeoutError, SchemaError}

\* errors createClient raises for a configuration it rejects
UrlError == Error("TypeError", <<"Invalid URL">>, "ERR_INVALID_URL")

toLowerCase(chunk) ==
    CASE chunk = "ECONNRESET" -> "econnreset"
      [] chunk = "Timeout error." -> "timeout error."
      [] chunk = "Invalid URL" -> "invalid url"
      [] chunk = "ERR_INVALID_URL" -> "err_invalid_url"
      [] chunk = "Unknown table " -> "unknown table "
      [] chunk = "Operation failed: " -> "operation failed: "
      [] chunk = "Failed to initialize ClickHouse client: " ->
             "failed to initialize clickhouse client: "
      [] OTHER -> chunk

retryablePatterns ==
    {"aborted", "econnreset", "econnrefused", "enetunreach", "etimedout",
     "ehostunreach", "socket hang up", "connection closed",
     "connection timeout", "read timeout", "write timeout", "tls handshake",
     "certificate", "network error", "connection refused"}

\* isRetryableError(error): a pattern stands in the lower-cased message or code
isRetryableError(error) ==
    \E pattern \in retryablePatterns :
       \/ \E k \in 1..Len(error.message) :
             toLowerCase(error.message[k]) = pattern
       \/ toLowerCase(error.code) = pattern

\* this.config.options?.maxRetries ?? 3
maxRetries == 3

Kinds == {"all", "next", "first", "count", "delete"}

NoOutcome == [settled |-> FALSE, threw |-> FALSE, error |-> <<>>, value |-> ""]
Returned(value) ==
    [settled |-> TRUE, threw |-> FALSE, error |-> <<>>, value |-> value]
Threw(error) ==
    [settled |-> TRUE, threw |-> TRUE, error |-> <<error>>, value |-> ""]

CallIds == 1..Len(calls)

\* with() rejects with error: all, next, first and count pass it on, delete()
\* catches it and returns false
Rejected(call, error) ==
    [call EXCEPT !.pc = "done", !.handle = 0,
                 !.outcome = IF call.kind = "delete" THEN Returned("false")
                             ELSE Threw(error)]

\* a catch clause that retries whatever the error is
Caught_AlwaysRetry(call, error) ==
    IF call.attempt < maxRetries
    THEN [call EXCEPT !.lastError = <<error>>, !.handle = 0,
                      !.pc = IF client # 0 THEN "closing" ELSE "reset"]
    ELSE Rejected([call EXCEPT !.lastError = <<error>>],
                  IF isRetryableError(error)
                  THEN ConnectionError(
                          <<"Operation failed after ", NumStr(maxRetries + 1),
                            " attempts. Last error: ">> \o error.message, error)
                  ELSE ConnectionError(
                          <<"Operation failed: ">> \o error.message, error))

\* the catch clause of with(), up to its first await or its throw
Caught(call, error) ==
    IF isRetryableError(error) /\ call.attempt < maxRetries
    THEN [call EXCEPT !.lastError = <<error>>, !.handle = 0,
                      !.pc = IF client # 0 THEN "closing" ELSE "reset"]
    ELSE Rejected([call EXCEPT !.lastError = <<error>>],
                  IF isRetryableError(error)
                  THEN ConnectionError(
                          <<"Operation failed after ", NumStr(maxRetries + 1),
                            " attempts. Last error: ">> \o error.message, error)
                  ELSE ConnectionError(
                          <<"Operation failed: ">> \o error.message, error))

\* resetClient() up to its await: this.client.close() when a client is set
ClosedBy(call, error) ==
    IF isRetryableError(error) /\ call.attempt < maxRetries /\ client # 0
    THEN [clients EXCEPT ![client] = "closed"]
    ELSE clients

\* a caller (all, next, first, count, delete) reaches with()
Begin(kind) ==
    /\ calls' = Append(calls, [kind |-> kind, pc |-> "init", attempt |-> 0,
                               handle |-> 0, invoked |-> 0,
                               raised |-> <<>>, lastError |-> <<>>,
                               outcome |-> NoOutcome])
    /\ UNCHANGED <<config, client, clients>>
    /\ UNCHANGED ormVars

\* const client = await this.initializeClient()
Initialize(c) ==
    /\ calls[c].pc = "init"
    /\ IF client # 0
       THEN /\ calls' = [calls EXCEPT ![c].pc = "ready", ![c].handle = client]
            /\ UNCHANGED <<client, clients>>
       ELSE IF config.createError = <<>>
       THEN /\ clients' = Append(clients, "open")
            /\ client' = Len(clients) + 1
            /\ calls' = [calls EXCEPT ![c].pc = "ready",
                                      ![c].handle = Len(clients) + 1]
       ELSE \A e \in {ConnectionError(
                         <<"Failed to initialize ClickHouse client: ">>
                         \o config.createError[1].message,
                         config.createError[1])} :
               /\ calls' = [calls EXCEPT ![c] = Caught(calls[c], e)]
               /\ clients' = ClosedBy(calls[c], e)
               /\ UNCHANGED client
    /\ UNCHANGED config
    /\ UNCHANGED ormVars

\* operation(client) is invoked
Invoke(c) ==
    /\ calls[c].pc = "ready"
    /\ calls' = [calls EXCEPT ![c].pc = "op", ![c].raised = <<>>,
                              ![c].invoked = calls[c].invoked + 1]
    /\ UNCHANGED <<config, client, clients>>
    /\ UNCHANGED ormVars

\* client.query / client.exec resolves and with() returns its value;
\* delete() returns true, the others go on to read the rows
OpReturns(c) ==
    /\ calls[c].pc = "op"
    /\ calls' = [calls EXCEPT ![c] =
                    IF calls[c].kind = "delete"
                    THEN [@ EXCEPT !.pc = "done", !.handle = 0,
                                   !.outcome = Returned("true")]
                    ELSE [@ EXCEPT !.pc = "read", !.handle = 0]]
    /\ UNCHANGED <<config, client, clients>>
    /\ UNCHANGED ormVars

\* client.query / client.exec rejects with e
OpFails(c, e) ==
    /\ calls[c].pc = "op"
    /\ calls' = [calls EXCEPT ![c] =
                    Caught([calls[c] EXCEPT !.raised = <<e>>], e)]
    /\ clients' = ClosedBy(calls[c], e)
    /\ UNCHANGED <<config, client>>
    /\ UNCHANGED ormVars

\* await this.client.close() is over: this.client = null
CloseDone(c) ==
    /\ calls[c].pc = "closing"
    /\ client' = 0
    /\ calls' = [calls EXCEPT ![c].pc = "reset"]
    /\ UNCHANGED <<config, clients>>
    /\ UNCHANGED ormVars

\* await this.resetClient() is over: wait before retrying, or retry at once
ResetDone(c) ==
    /\ calls[c].pc = "reset"
    /\ calls' = [calls EXCEPT ![c] =
                    IF @.attempt < maxRetries - 1
                    THEN [@ EXCEPT !.pc = "delay"]
                    ELSE [@ EXCEPT !.pc = "init", !.attempt = @ + 1]]
    /\ UNCHANGED <<config, client, clients>>
    /\ UNCHANGED ormVars

\* the setTimeout of retryDelay * (attempt + 1) fires: continue
DelayDone(c) ==
    /\ calls[c].pc = "delay"
    /\ calls' = [calls EXCEPT ![c].pc = "init", ![c].attempt = @ + 1]
    /\ UNCHANGED <<config, client, clients>>
    /\ UNCHANGED ormVars

\* the rows of the result stream are read to the end
ReadReturns(c) ==
    /\ calls[c].pc = "read"
    /\ calls' = [calls EXCEPT ![c].pc = "done",
                              ![c].outcome = Returned("rows")]
    /\ UNCHANGED <<config, client, clients>>
    /\ UNCHANGED ormVars

\* the result stream raises e while rows are read
ReadFails(c, e) ==
    /\ calls[c].pc = "read"
    /\ calls' = [calls EXCEPT ![c].pc = "done", ![c].raised = <<e>>,
                              ![c].outcome = Threw(e)]
    /\ UNCHANGED <<config, client, clients>>
    /\ UNCHANGED ormVars

\* the continuation of call c that is ready to run
Resume(c) ==
    \/ Initialize(c)
    \/ Invoke(c)
    \/ CloseDone(c)
    \/ ResetDone(c)
    \/ DelayDone(c)

\* the data source answers call c
Answer(c) ==
    \/ OpReturns(c)
    \/ \E e \in ClientErrors : OpFails(c, e)
    \/ ReadReturns(c)
    \/ \E e \in ClientErrors : ReadFails(c, e)

InitWith == InitHeaps({UserModel}) /\ InitManager({<<>>, <<UrlError>>})

\* one call at a time
BeginAlone ==
    /\ Len(calls) < MaxCalls
    /\ \A c \in CallIds : calls[c].pc = "done"
    /\ \E kind \in Kinds : Begin(kind)
ResumeAny == \E c \in CallIds : Resume(c)
AnswerAny == \E c \in CallIds : Answer(c)

NextWith == BeginAlone \/ ResumeAny \/ AnswerAny

SpecWith == InitWith /\ [][NextWith]_vars

\* the event loop runs every continuation that is ready, and the data
\* source settles every request
SpecWithFair ==
    /\ InitWith
    /\ [][NextWith]_vars
    /\ \A c \in 1..MaxCalls :
          WF_vars(c \in CallIds /\ (Resume(c) \/ Answer(c)))

\* calls made while others are in progress
BeginAmong ==
    /\ Len(calls) < MaxConcurrent
    /\ \E kind \in {"next", "delete"} : Begin(kind)

NextConn == BeginAmong \/ ResumeAny \/ AnswerAny

SpecConn == InitWith /\ [][NextConn]_vars

---------------------------------------------------------------------------
(* Claims *)

BuilderMutators ==
    {"filter", "exclude", "project", "limit", "offset", "sort", "final", "aggregate"}

LogicalOps == {AND, OR, NOT}

\* number of conditions one and/or/not call with argument x appends
NumElems(x) == IF x.t = "array" THEN Len(x.a) ELSE 1

\* C2: each and/or/not call on a Q returns that same instance, appends its
\* conditions to that instance's list, tags all of them with one GroupID
\* that is one greater than that of the previous call, and leaves the
\* conditions of earlier calls (and every other Q) as they were.
C2_QAccumulates ==
    [][\A i \in QIds :
         (last'.op \in LogicalOps /\ last'.recv = i) =>
           LET old == qs[i].whereConditions
               new == qs'[i].whereConditions
               gid == qs'[i].groupCounter
           IN  /\ last'.ret = i
               /\ Len(new) = Len(old) + NumElems(last'.arg)
               /\ SubSeq(new, 1, Len(old)) = old
               /\ gid = qs[i].groupCounter + 1
               /\ \A k \in (Len(old) + 1)..Len(new) : new[k].groupId = gid
               /\ Len(old) > 0 => gid = old[Len(old)].groupId + 1
               /\ \A j \in QIds \ {i} : qs'[j] = qs[j]]_vars

\* a Q that took two calls, the second one an array of two conditions
C2_Witness ==
    \E i \in QIds :
       /\ last.op \in LogicalOps /\ last.recv = i
       /\ qs[i].groupCounter = 2
       /\ Len(qs[i].whereConditions) >= 3
       /\ qs[i].whereConditions[1].groupId = 1
       /\ qs[i].whereConditions[Len(qs[i].whereConditions)].groupId = 2


\* the accumulated conditions of the statement of builder i
Accumulated(i) == qbs[i].whereConditions \o qbs[i].excludeConditions

GroupIdsOf(conds) == {GroupOf(conds[k]) : k \in 1..Len(conds)}

MembersOf(conds, g) == SelectSeq(conds, LAMBDA c : GroupOf(c) = g)

\* the orders in which the groups ids can be listed
Orders(ids) ==
    {o \in [1..Cardinality(ids) -> ids] :
       \A a, b \in 1..Cardinality(ids) : a # b => o[a] # o[b]}

\* C3: with exactly one GroupID among the accumulated conditions the WHERE
\* body is that group's rendering verbatim; with two or more it is all group
\* renderings joined with OR inside one enclosing pair of parentheses, also
\* when the groups come from separate sequential filter() calls.
C3_WhereBody ==
    \A i \in BuilderIds :
       LET conds == Accumulated(i)
           ids == GroupIdsOf(conds)
           body == buildWhereClause(conds)
       IN  conds # <<>> =>
             IF Cardinality(ids) = 1
             THEN body = GroupClause(conds)
             ELSE \E o \in Orders(ids) :
                    body = <<"(">>
                           \o JoinChunks([k \in 1..Len(o) |->
                                            GroupClause(MembersOf(conds, o[k]))],
                                         " OR ")
                           \o <<")">>

\* a statement made by two chained calls whose conditions fall into two
\* GroupIDs, one of them from a plain filter object
C3_Witness ==
    \E i \in BuilderIds :
       /\ i >= 3
       /\ last.ret = i /\ last.op \in {"filter", "exclude"}
       /\ Accumulated(i - 1) # <<>>
       /\ Cardinality(GroupIdsOf(Accumulated(i - 1))) = 1
       /\ Cardinality(GroupIdsOf(Accumulated(i))) = 2
       /\ Head(buildWhereClause(Accumulated(i))) = "("
       /\ \E k \in 1..Len(buildWhereClause(Accumulated(i))) :
             buildWhereClause(Accumulated(i))[k] = " OR "


\* C5: in every compiled WHERE fragment the token joining two sibling
\* conditions is AND or OR, never NOT.
C5_JoinerIsAndOr ==
    \A i \in BuilderIds :
       LET body == buildWhereClause(Accumulated(i))
       IN  \A k \in 1..Len(body) :
              body[k] \in {" " \o op \o " " : op \in LogicalOps}
                => body[k] \in {" AND ", " OR "}

\* the Q i is a chain of k nested not() calls around a filter object:
\* NotChain(i) = k, and 0 when it is no such chain
RECURSIVE NotChain(_)
NotChain(i) ==
    LET cs == qs[i].whereConditions
    IN  IF Len(cs) # 1 \/ cs[1].logicalOperator # NOT THEN 0
        ELSE IF cs[1].value.t = "conds" THEN 1
        ELSE IF NotChain(cs[1].value.r) = 0 THEN 0
        ELSE 1 + NotChain(cs[1].value.r)

\* the text of a chain: k literal wrappers "(NOT (" ... "))" around the
\* AND-joined leaves of the filter object (NULL stands for an object
\* without keys)
RECURSIVE NotChainText(_)
NotChainText(i) ==
    LET c == qs[i].whereConditions[1]
    IN  <<"(NOT ">>
        \o (IF c.value.t # "conds" THEN <<"(">> \o NotChainText(c.value.r) \o <<")">>
            ELSE IF c.value.c = <<>> THEN <<"NULL">>
            ELSE <<"(">>
                 \o JoinChunks([k \in 1..Len(c.value.c) |->
                                  buildCondition(c.value.c[k])], " AND ")
                 \o <<")">>)
        \o <<")">>

CountNot(chunks) == Cardinality({k \in 1..Len(chunks) : chunks[k] = "(NOT "})

C7_BuilderIndependentOfQ ==
    [][\A i \in BuilderIds :
         last'.op \in LogicalOps => getQuery(i)' = getQuery(i)]_vars


\* the text of a leaf added by filter(): its rendering in its own parentheses
FilterLeafText(c) == <<"(">> \o buildBaseCondition(c) \o <<")">>

\* the text of a leaf added by exclude(): the raw key, the operator != and
\* the formatted value (a null value renders by the IS NULL rule for leaves)
ExcludeLeafText(c) ==
    IF IsNullish(c.value) THEN <<"(", c.field \o " IS NULL", ")">>
    ELSE <<"(", c.field \o " != " \o formatValue(c.value), ")">>

\* C4: conditions given as plain objects all belong to the default group:
\* after any sequence of plain-object filter() and exclude() calls that gives
\* two or more leaves the WHERE body is one parenthesized group of all the
\* leaves joined with AND, the leaves of exclude() carrying the operator !=.
C4_PlainObjectsOneGroup ==
    \A i \in BuilderIds :
       LET w == qbs[i].whereConditions
           e == qbs[i].excludeConditions
       IN  /\ \A k \in 1..Len(e) : e[k].operator = SqlNE /\ ~e[k].isNested
           /\ Len(w) + Len(e) >= 2 =>
                buildWhereClause(Accumulated(i)) =
                  <<"(">>
                  \o JoinChunks([k \in 1..Len(w) |-> FilterLeafText(w[k])]
                                \o [k \in 1..Len(e) |-> ExcludeLeafText(e[k])],
                                " AND ")
                  \o <<")">>

\* filter({price__gt: 100}).exclude({status: 'inactive'})
C4_Witness ==
    \E i \in BuilderIds :
       /\ last.op = "exclude" /\ last.ret = i
       /\ getQuery(i) =
            "SELECT * FROM users WHERE ((price > 100) AND (status != 'inactive'))"

\* the leaves of a condition list, nested groups flattened in order
RECURSIVE LeavesOf(_)
LeavesOf(conds) ==
    IF conds = <<>> THEN <<>>
    ELSE (IF Head(conds).isNested /\ IsArray(Head(conds).value)
          THEN LeavesOf(CondList(Head(conds).value))
          ELSE <<Head(conds)>>)
         \o LeavesOf(Tail(conds))

\* the leaves the last call added: to the Q it was made on, or to the
\* builder it returned
AddedLeaves ==
    IF last'.op \in LogicalOps
    THEN LeavesOf(SubSeq(qs'[last'.recv].whereConditions,
                         Len(qs[last'.recv].whereConditions) + 1,
                         Len(qs'[last'.recv].whereConditions)))
    ELSE IF last'.op = "filter"
    THEN LeavesOf(SubSeq(qbs'[last'.ret].whereConditions,
                         Len(qbs[last'.recv].whereConditions) + 1,
                         Len(qbs'[last'.ret].whereConditions)))
    ELSE LeavesOf(SubSeq(qbs'[last'.ret].excludeConditions,
                         Len(qbs[last'.recv].excludeConditions) + 1,
                         Len(qbs'[last'.ret].excludeConditions)))

\* a filter object whose values are scalars or such objects again
RECURSIVE IsPlainTree(_)
IsPlainTree(v) ==
    /\ v.t = "object"
    /\ \A k \in 1..Len(v.o) :
          \/ v.o[k][2].t \in {"string", "number", "boolean", "null", "undefined"}
          \/ IsPlainTree(v.o[k][2])

\* the field paths of a nested filter object: for every leaf the resolved
\* base names of the keys from the root to the leaf, joined with dots
RECURSIVE ExpectedPaths(_, _)
ExpectedPaths(entries, prefix) ==
    IF entries = <<>> THEN <<>>
    ELSE LET base == parseFieldAndOperator(entries[1][1]).key
             path == IF prefix # "" THEN prefix \o "." \o base ELSE base
         IN  (IF entries[1][2].t = "object"
              THEN ExpectedPaths(entries[1][2].o, path)
              ELSE <<path>>)
             \o ExpectedPaths(Tail(entries), prefix)

\* C8: for a nested plain-object filter of any depth, passed to filter() or
\* to and/or/not of a Q, the field path of each leaf is the dot-joined chain
\* of the resolved base names (operator suffix removed) of the keys from the
\* root to the leaf.
C8_FieldPathIsBaseNameChain ==
    [][(last'.op \in LogicalOps \cup {"filter"} /\ IsPlainTree(last'.arg)) =>
          [k \in 1..Len(AddedLeaves) |-> AddedLeaves[k].field]
            = ExpectedPaths(last'.arg.o, "")]_vars

\* C9: a filter value that is an array or a sub-query (a QueryBuilder) is
\* kept as the single value of one leaf and is never traversed as a nested
\* filter object, in filter() and in and/or/not of a Q alike.
C9_ArrayAndSubqueryAreValues ==
    [][(/\ last'.op \in LogicalOps \cup {"filter"}
        /\ last'.arg.t = "object"
        /\ Len(last'.arg.o) = 1
        /\ last'.arg.o[1][2].t \in {"array", "builder"}) =>
          /\ Len(AddedLeaves) = 1
          /\ AddedLeaves[1].value = last'.arg.o[1][2]]_vars

\* C10: a condition whose value is null or undefined compiles to
\* "<path> IS NULL" whatever its operator: under every operator suffix
\* (__ne, __icontains, __in, __has_any included) and for the conditions
\* exclude() adds.
C10_NullIsNull ==
    [][(/\ last'.op \in LogicalOps \cup {"filter", "exclude"}
        /\ last'.arg.t = "object"
        /\ Len(last'.arg.o) = 1
        /\ IsNullish(last'.arg.o[1][2])) =>
          /\ Len(AddedLeaves) = 1
          /\ buildCondition(AddedLeaves[1])
               = <<"(", AddedLeaves[1].field \o " IS NULL", ")">>]_vars


\* every leaf the client has built: those of the statements and of the Q trees
AllLeaves ==
    UNION {{LeavesOf(Accumulated(i))[k] : k \in 1..Len(LeavesOf(Accumulated(i)))} :
             i \in BuilderIds}
    \cup UNION {{LeavesOf(qs[i].whereConditions)[k] :
                   k \in 1..Len(LeavesOf(qs[i].whereConditions))} : i \in QIds}

\* the IN leaves whose value is a non-empty array of strings and numbers
InArrayLeaves ==
    {c \in AllLeaves :
       /\ c.operator = SqlIN /\ c.value.t = "array" /\ c.value.a # <<>>
       /\ \A k \in 1..Len(c.value.a) : c.value.a[k].t \in {"string", "number"}}

\* an element of an IN list, strings quoted and numbers bare
TypedElem(v) == IF v.t = "string" THEN "'" \o v.s \o "'" ELSE v.s

\* an element of an IN list, always quoted
QuotedElem(v) == "'" \o v.s \o "'"

\* C11 as stated: an IN leaf with a non-empty array compiles to
\* "<path> IN (<e1>, <e2>, ...)", string elements single-quoted and number
\* elements unquoted.
C11_InListTyped ==
    \A c \in InArrayLeaves :
       buildBaseCondition(c) =
         <<c.field \o " IN ("
             \o JoinStr([k \in 1..Len(c.value.a) |-> TypedElem(c.value.a[k])], ", ")
             \o ")">>

\* C11 amended: an IN leaf with a non-empty array of strings and numbers
\* compiles to "<path> IN ('<e1>', '<e2>', ...)": a parenthesized comma-joined
\* list in which every element is single-quoted, number elements included.
C11_InListQuoted ==
    \A c \in InArrayLeaves :
       buildBaseCondition(c) =
         <<c.field \o " IN ("
             \o JoinStr([k \in 1..Len(c.value.a) |-> QuotedElem(c.value.a[k])], ", ")
             \o ")">>

\* filter({id__in: [1, 2, 3]})
C11_Witness ==
    \E i \in BuilderIds :
       /\ last.op = "filter" /\ last.ret = i
       /\ getQuery(i) = "SELECT * FROM users WHERE (id IN ('1', '2', '3'))"


\* the position of the first delimiter in a key, 0 when it has none
FirstDelim(key) ==
    IF \E k \in 1..Len(key) : key[k] = Delim
    THEN CHOOSE k \in 1..Len(key) :
            key[k] = Delim /\ \A j \in 1..(k - 1) : key[j] # Delim
    ELSE 0

\* the base name: the text before the first delimiter
BaseOf(key) ==
    IF FirstDelim(key) = 0 THEN Text(key)
    ELSE Text(SubSeq(key, 1, FirstDelim(key) - 1))

\* the suffix: the whole text after the first delimiter
SuffixOf(key) ==
    IF FirstDelim(key) = 0 THEN ""
    ELSE Text(SubSeq(key, FirstDelim(key) + 1, Len(key)))

\* the operator the table gives for a suffix, EQ for the empty suffix and
\* for one the table does not have
OperatorOf(suffix) ==
    IF suffix = "" THEN SqlEQ ELSE FIELD_TO_SQL_OPERATOR(Delim \o suffix)

\* C12: the resolver splits a key at the first "__": the base name is the
\* text before it, the operator is the table's entry for the whole remaining
\* suffix, and a key without delimiter or with an unknown suffix resolves to
\* EQ (no error).
C12_ResolverSplitsAtFirstDelimiter ==
    [][(/\ last'.op \in LogicalOps \cup {"filter"}
        /\ last'.arg.t = "object"
        /\ Len(last'.arg.o) = 1
        /\ last'.arg.o[1][2].t = "number") =>
          /\ ~last'.threw
          /\ Len(AddedLeaves) = 1
          /\ AddedLeaves[1].field = BaseOf(last'.arg.o[1][1])
          /\ AddedLeaves[1].operator = OperatorOf(SuffixOf(last'.arg.o[1][1]))]_vars


\* the statement of builder b carries the FINAL modifier
HasFinal(b) == \E k \in 1..Len(buildQuery(b)) : buildQuery(b)[k] = "FINAL "

\* C13: final() on a builder whose table engine is not ReplacingMergeTree
\* throws at the call itself, before any statement is compiled or run, and
\* leaves the builder without the FINAL flag; on a ReplacingMergeTree table
\* final() never throws.
C13_FinalThrowsAtCall ==
    [][\A i \in BuilderIds :
         (last'.op = "final" /\ last'.recv = i) =>
           /\ last'.threw <=> qbs[i].engine # REPLACING_MERGE_TREE
           /\ last'.threw =>
                /\ qbs' = qbs
                /\ ~qbs'[i]._final
                /\ ~HasFinal(qbs'[i])
                /\ runs' = runs
                /\ gens' = gens
           /\ ~last'.threw => HasFinal(qbs'[i])]_vars

\* final() has thrown on a MergeTree builder that carries a filter
C13_Witness ==
    /\ last.op = "final" /\ last.threw
    /\ last.recv \in BuilderIds
    /\ qbs[last.recv].engine = MERGE_TREE
    /\ qbs[last.recv].whereConditions # <<>>
    /\ ~qbs[last.recv]._final


ChainedCalls ==
    {"filter", "exclude", "sort", "limit", "offset", "project", "aggregate"}

\* C14: final() combines with the other methods: once final() has succeeded
\* on a builder, every builder derived from it by a further chained call
\* (filter, exclude, sort, limit, offset, project, aggregate) has FINAL in
\* its statement, and so has the statement first() runs.
C14_FinalSurvivesChaining ==
    [][\A i \in BuilderIds :
         (last'.recv = i /\ qbs[i]._final) =>
           /\ last'.op \in ChainedCalls => HasFinal(qbs'[last'.ret])
           /\ last'.op = "first" =>
                /\ Len(runs') = Len(runs) + 1
                /\ runs'[Len(runs')] =
                     Text(buildQuery([limit(qbs[i], 1) EXCEPT !._final = TRUE]))]_vars


\* the clause keywords of a statement, in the order of the statement shape
ClauseKeywords ==
    <<"SELECT ", " FROM ", "FINAL ", "WHERE ", " ORDER BY ", " LIMIT ", " OFFSET ">>

\* where the chunks of statement q hold the keyword kw
PositionsOf(q, kw) == {k \in 1..Len(q) : q[k] = kw}

\* C15: whatever the sequence of builder calls, the compiled statement has
\* its clauses in the fixed order SELECT <projection>, FROM <table>, FINAL,
\* WHERE, ORDER BY, LIMIT, OFFSET, each clause at most once.
C15_ClauseOrder ==
    \A i \in BuilderIds :
       LET q == buildQuery(qbs[i])
       IN  /\ PositionsOf(q, "SELECT ") = {1}
           /\ PositionsOf(q, " FROM ") = {3}
           /\ \A a \in 1..Len(ClauseKeywords) :
                 Cardinality(PositionsOf(q, ClauseKeywords[a])) <= 1
           /\ \A a, b \in 1..Len(ClauseKeywords) :
                 a < b =>
                   \A pa \in PositionsOf(q, ClauseKeywords[a]) :
                      \A pb \in PositionsOf(q, ClauseKeywords[b]) : pa < pb

\* offset(5) then limit(10): the statement ends in LIMIT 10 OFFSET 5
C15_Witness ==
    \E i \in BuilderIds :
       /\ last.op = "limit" /\ last.ret = i
       /\ qbs[last.recv]._offset = 5
       /\ getQuery(i) = "SELECT * FROM users  LIMIT 10 OFFSET 5"


\* the leaves of a nested sort specification: <<dotted path, direction>>, in
\* key order, a nested object's leaves in the place of its key
RECURSIVE SortLeaves(_, _)
SortLeaves(entries, prefix) ==
    IF entries = <<>> THEN <<>>
    ELSE LET path == IF prefix # "" THEN prefix \o "." \o Text(entries[1][1])
                     ELSE Text(entries[1][1])
         IN  (IF entries[1][2].t = "object"
              THEN SortLeaves(entries[1][2].o, path)
              ELSE <<<<path, entries[1][2]>>>>)
             \o SortLeaves(Tail(entries), prefix)

\* the ORDER BY list of a sort specification: one entry per leaf
OrderByList(spec) ==
    LET ls == SortLeaves(spec.o, "")
    IN  JoinChunks([k \in 1..Len(ls) |->
                      <<ls[k][1] \o " "
                          \o (CASE ls[k][2] = Num(-1) -> "DESC"
                                [] ls[k][2] = Num(1) -> "ASC")>>],
                   ", ")

RECURSIVE Expression(_)
Expression(agg) ==
    IF agg.kind = "fn"
    THEN agg.name \o "("
         \o (IF agg.args # <<>> THEN Expression(agg.args[1]) ELSE agg.field)
         \o ")"
    ELSE "(" \o Expression(agg.args[1]) \o " " \o agg.operator \o " "
         \o Expression(agg.args[2]) \o ")"

\* "<expression> as <alias>": the node's own alias, otherwise its map key
AliasedEntry(key, agg) ==
    Expression(agg) \o " as " \o (IF agg.alias # "" THEN agg.alias ELSE key)

\* C17: each projection entry produced by aggregate(map) is
\* "<expression> as <alias>", the alias (the node's own, otherwise the map
\* key) appended exactly once at the end and no alias text inside the
\* expression, for function-call and arithmetic nodes of any depth.
C17_AliasOnce ==
    [][last'.op = "aggregate" =>
          qbs'[last'.ret]._project =
              JoinStr([k \in 1..Len(last'.arg) |->
                         AliasedEntry(last'.arg[k][1], last'.arg[k][2])],
                      ", ")]_vars


GenIds == 1..Len(gens)

\* the rows generator g has handed out so far, in the order of delivery
DeliveredBy(g) ==
    LET ds == SelectSeq(delivered, LAMBDA d : d[2] = g)
    IN  [k \in 1..Len(ds) |-> ds[k][3]]

\* all rows of generator g have been handed out
Exhausted(g) == gens[g].started /\ gens[g].pos = Len(gens[g].rows)

\* the step is a pull on builder i: next(), the start of a for-await or
\* all(), or a later turn of such a loop
PullOn(i) ==
    \/ last'.op \in {"next", "forAwait", "all"} /\ last'.recv = i
    \/ last'.op = "pull" /\ loops[last'.recv].builder = i

\* every generator has run its statement at most once and has handed out a
\* prefix of its result stream, each row once and in stream order
OneExecutionInOrder ==
    /\ Len(runs) = Cardinality({g \in GenIds : gens[g].started})
    /\ \A g \in GenIds :
          \A ds \in {DeliveredBy(g)} :
             /\ Len(ds) = gens[g].pos
             /\ \A stream \in {ResultOf(qbs[gens[g].builder])} :
                   /\ Len(ds) <= Len(stream)
                   /\ \A k \in 1..Len(ds) : ds[k] = stream[k]

C19_ResetRestarts ==
    [][\A i \in BuilderIds :
          (last.op = "resetIterator" /\ last.recv = i /\ PullOn(i)) =>
             /\ ~last'.threw
             /\ runs' = Append(runs, Text(buildQuery(qbs[i])))
             /\ \A stream \in {ResultOf(qbs[i])} :
                   IF stream = <<>>
                   THEN delivered' = delivered /\ last'.ret = 0
                   ELSE /\ last'.ret = stream[1]
                        /\ delivered' =
                              Append(delivered, <<i, Len(gens) + 1, stream[1]>>)]_vars


\* C20: all() returns all records matching the query: every call to all()
\* on a builder returns the complete result set of the builder's statement,
\* regardless of earlier next(), all() or for-await calls on that builder.
C20_AllReturnsAll ==
    \A l \in LoopIds :
       (loops[l].kind = "all" /\ loops[l].state = "done") =>
          loops[l].got = ResultOf(qbs[loops[l].builder])

\* the conditions the last filter()/exclude() call added to its receiver's
AddedConditions ==
    IF last'.op = "filter"
    THEN SubSeq(qbs'[last'.ret].whereConditions,
                Len(qbs[last'.recv].whereConditions) + 1,
                Len(qbs'[last'.ret].whereConditions))
    ELSE SubSeq(qbs'[last'.ret].excludeConditions,
                Len(qbs[last'.recv].excludeConditions) + 1,
                Len(qbs'[last'.ret].excludeConditions))

\* C22: each filter() call and each exclude() call mints exactly one new
\* GroupID: all conditions one call adds share it, and it is the GroupID of
\* no condition an earlier filter()/exclude() call added.
C22_OneNewGroupPerCall ==
    [][(last'.op \in {"filter", "exclude"} /\ AddedConditions # <<>>) =>
          /\ Cardinality(GroupIdsOf(AddedConditions)) = 1
          /\ GroupIdsOf(AddedConditions)
                \cap GroupIdsOf(Accumulated(last'.recv)) = {}]_vars

\* C23: all conditions of a statement that share a GroupID carry the same
\* joiner, so the joiner of a group does not depend on which member comes
\* first; also when the conditions come from different Q instances passed
\* to successive filter()/exclude() calls.
C23_GroupSharesJoiner ==
    \A i \in BuilderIds :
       \A conds \in {Accumulated(i)} :
          \A k, l \in 1..Len(conds) :
             GroupOf(conds[k]) = GroupOf(conds[l]) =>
                conds[k].logicalOperator = conds[l].logicalOperator

\* the GroupIDs of a condition list in the order of their first appearance
RECURSIVE FirstSeen(_)
FirstSeen(conds) ==
    IF conds = <<>> THEN <<>>
    ELSE LET before == FirstSeen(SubSeq(conds, 1, Len(conds) - 1))
             g == GroupOf(conds[Len(conds)])
         IN  IF \E k \in 1..Len(before) : before[k] = g THEN before
             ELSE Append(before, g)

\* C24: groups are rendered in the order in which their GroupID first
\* appears in the accumulated condition list, never re-sorted by the
\* numeric value of the GroupID.
C24_GroupsInInsertionOrder ==
    \A i \in BuilderIds :
       \A conds \in {Accumulated(i)} :
          \A ids \in {FirstSeen(conds)} :
             Len(ids) >= 2 =>
                buildWhereClause(conds) =
                   <<"(">>
                   \o JoinChunks([k \in 1..Len(ids) |->
                                    GroupClause(MembersOf(conds, ids[k]))],
                                 " OR ")
                   \o <<")">>

\* C25: every leaf with operator IN or HAS_ANY that reaches the SQL emitter
\* holds an array or a sub-query reference: a scalar the caller supplied
\* has been coerced to a single-element array, in filter() with a plain
\* object and in Q.and/or/not with a plain object, at any nesting depth.
C25_SetOperandIsArray ==
    \A i \in BuilderIds :
       \A leaves \in {LeavesOf(Accumulated(i))} :
          \A k \in 1..Len(leaves) :
             leaves[k].operator \in {SqlIN, SqlHAS_ANY} =>
                leaves[k].value.t \in {"array", "builder"}

\* the truth value of a compiled WHERE fragment, read from its text: the
\* leaves take their values from env, AND binds tighter than OR, "(NOT x)"
\* negates.  A frame holds one open parenthesis: the OR of its finished AND
\* runs, the current AND run, the joiner read last and the number of terms.
Frame(neg) == [neg |-> neg, ors |-> FALSE, cur |-> TRUE, op |-> "", n |-> 0]

AddTerm(frame, v) ==
    IF frame.n = 0 THEN [frame EXCEPT !.cur = v, !.n = 1]
    ELSE IF frame.op = " AND "
    THEN [frame EXCEPT !.cur = frame.cur /\ v, !.n = frame.n + 1, !.op = ""]
    ELSE [frame EXCEPT !.ors = frame.ors \/ frame.cur, !.cur = v,
                       !.n = frame.n + 1, !.op = ""]

FrameValue(frame) ==
    IF frame.neg THEN ~(frame.ors \/ frame.cur) ELSE frame.ors \/ frame.cur

\* the rest of the text from token k on, with the open frames on the stack;
\* "malformed" for a text that is no boolean expression
RECURSIVE Read(_, _, _, _)
Read(tokens, k, stack, env) ==
    LET top == stack[Len(stack)]
        below == SubSeq(stack, 1, Len(stack) - 1)
    IN  IF k > Len(tokens)
        THEN IF Len(stack) = 1 /\ top.n > 0 /\ top.op = ""
             THEN IF FrameValue(top) THEN "true" ELSE "false"
             ELSE "malformed"
        ELSE IF tokens[k] \in {"(", "(NOT "}
        THEN IF top.n > 0 /\ top.op = "" THEN "malformed"
             ELSE Read(tokens, k + 1, Append(stack, Frame(tokens[k] = "(NOT ")), env)
        ELSE IF tokens[k] = ")"
        THEN IF Len(stack) = 1 \/ top.n = 0 \/ top.op # "" THEN "malformed"
             ELSE Read(tokens, k + 1,
                       Append(SubSeq(below, 1, Len(below) - 1),
                              AddTerm(below[Len(below)], FrameValue(top))),
                       env)
        ELSE IF tokens[k] \in {" AND ", " OR "}
        THEN IF top.n = 0 \/ top.op # "" THEN "malformed"
             ELSE Read(tokens, k + 1, Append(below, [top EXCEPT !.op = tokens[k]]), env)
        ELSE IF tokens[k] \in DOMAIN env
        THEN IF top.n > 0 /\ top.op = "" THEN "malformed"
             ELSE Read(tokens, k + 1, Append(below, AddTerm(top, env[tokens[k]])), env)
        ELSE "malformed"

Meaning(tokens, env) == Read(tokens, 1, <<Frame(FALSE)>>, env)

\* the texts of the leaves of the filter objects
LeafTexts == {"id = 1", "name = 'John'"}

\* two compiled conditions mean the same: both are boolean expressions and
\* have the same truth value whatever the leaves are
Equivalent(a, b) ==
    \A env \in [LeafTexts -> BOOLEAN] :
       /\ Meaning(a, env) # "malformed"
       /\ Meaning(a, env) = Meaning(b, env)

\* C26: a Q tree has one logical meaning however it is used: the condition
\* compiled for filter(q) is logically equivalent to the sub-condition
\* compiled for q nested inside another combinator, as in new Q().and(q).
C26_OneMeaning ==
    \A b \in BuilderIds : \A o, j \in QIds :
       \A k \in 1..Len(qs[o].whereConditions) :
          \A c \in {qs[o].whereConditions[k]} :
             (/\ c.value = QArr(j)
              /\ c.logicalOperator \in {AND, OR}
              /\ qs[j].whereConditions # <<>>
              /\ c.operator = qs[j].whereConditions[1].logicalOperator
              /\ qbs[b].excludeConditions = <<>>
              /\ qbs[b].whereConditions = qs[j].whereConditions) =>
                Equivalent(buildWhereClause(Accumulated(b)), buildCondition(c))

\* C27: count() returns the number of records matching the builder's filter
\* and exclude conditions: its statement selects COUNT(*) over the table and
\* WHERE fragment of getQuery() and carries no LIMIT or OFFSET, so limit,
\* offset and sort set on the builder do not change the count.
C27_CountOverConditions ==
    [][last'.op = "count" =>
          \A b \in {qbs[last'.recv]} :
             \A whereClause \in {buildWhereClause(Accumulated(last'.recv))} :
                /\ runs' = Append(runs,
                      Text(<<"SELECT ", "COUNT(*) as count", " FROM ",
                             b.tableName, " ">>
                           \o (IF b._final THEN <<"FINAL ">> ELSE <<>>)
                           \o (IF whereClause # <<>>
                               THEN <<"WHERE ">> \o whereClause ELSE <<>>)))
                /\ last'.ret = Len(Table)]_vars

\* C28: resetIterator() is safe at any time: whenever it is called, also
\* while an all() or for-await loop on the same builder is in progress, no
\* call fails with an error, so no loop ever ends by throwing and no
\* iterator call throws.
C28_ResetIsSafe ==
    /\ \A l \in LoopIds : loops[l].state # "threw"
    /\ last.op \in {"next", "resetIterator", "pull"} => ~last.threw

\* with() on call: it has returned or thrown
WithOver(call) == call.pc \in {"read", "done"}

\* with() on call threw: the caller holds a ConnectionError, or is delete()
\* and returned false
WithThrew(call) ==
    /\ call.pc = "done"
    /\ \/ call.outcome.threw /\ call.outcome.error[1].name = "ConnectionError"
       \/ call.kind = "delete" /\ call.outcome.value = "false"

\* C29: ConnectionManager.with(op) always terminates after invoking op at
\* most maxRetries + 1 times (4 with the default configuration): op is
\* invoked again only after a failure classified as retryable, and a
\* failure that is not retryable ends the call after that attempt with an
\* error.
C29_BoundedRetries ==
    /\ [][\A c \in CallIds :
            /\ calls'[c].invoked <= maxRetries + 1
            /\ maxRetries + 1 = 4
            /\ (calls'[c].invoked > calls[c].invoked /\ calls[c].invoked > 0) =>
                  /\ calls[c].lastError # <<>>
                  /\ isRetryableError(calls[c].lastError[1])
            /\ (calls[c].pc = "op" /\ calls'[c].raised # <<>>
                /\ calls'[c].pc # "read"
                /\ ~isRetryableError(calls'[c].raised[1])) =>
                  /\ WithThrew(calls'[c])
                  /\ calls'[c].invoked = calls[c].invoked]_vars
    /\ \A c \in 1..MaxCalls :
          (c \in CallIds) ~> (c \in CallIds /\ WithOver(calls[c]))

\* a call that invoked op four times and ended with an error
C29_Witness ==
    \E c \in CallIds :
       /\ calls[c].invoked = maxRetries + 1
       /\ WithThrew(calls[c])
       /\ isRetryableError(calls[c].raised[1])

\* C30: when several with() calls run concurrently on one ConnectionManager,
\* the manager never closes a client while another call's operation that
\* was handed that client is still in flight.
C30_NoCloseUnderOperation ==
    [][\A k \in 1..Len(clients) :
          (clients[k] = "open" /\ clients'[k] = "closed") =>
             \A d \in CallIds :
                (calls[d].pc = "op" /\ calls[d].handle = k) =>
                   calls'[d].pc # "op"]_vars

\* the statement of call ended with an error of the data-source client
EndedByClientError(call) == call.pc = "done" /\ call.raised # <<>>

\* C21 as stated: an error raised by the data-source client while a
\* statement is executed (through all, next, first, count or delete)
\* reaches the caller as that same error: it is neither replaced by another
\* error object nor converted into a normal return value.
C21_ErrorsUnchanged ==
    \A c \in CallIds :
       EndedByClientError(calls[c]) =>
          /\ calls[c].outcome.threw
          /\ calls[c].outcome.error = calls[c].raised

\* C21: an error of the data-source client that ends a statement is never
\* lost: raised by client.query under all, next, first or count, it reaches
\* the caller as a ConnectionError whose originalError is that same error
\* and whose message ends with its message; raised while the rows are read,
\* it reaches the caller as that same error; under delete() the caller
\* gets the return value false.
C21_ErrorsReachCaller ==
    [][\A c \in CallIds :
          (calls[c].pc \in {"op", "read"} /\ EndedByClientError(calls'[c])) =>
             \A e \in {calls'[c].raised[1]} :
                \A outcome \in {calls'[c].outcome} :
                   IF calls[c].kind = "delete"
                   THEN outcome = Returned("false")
                   ELSE IF calls[c].pc = "read"
                   THEN outcome = Threw(e)
                   ELSE /\ outcome.threw
                        /\ outcome.error[1].name = "ConnectionError"
                        /\ outcome.error[1].originalError = <<e>>
                        /\ \E prefix \in {<<"Operation failed: ">>,
                                          <<"Operation failed after ", "4",
                                            " attempts. Last error: ">>} :
                              outcome.error[1].message = prefix \o e.message]_vars

\* count() failed with a ConnectionError around the client's schema error
C21_Witness ==
    \E c \in CallIds :
       /\ calls[c].kind = "count"
       /\ EndedByClientError(calls[c])
       /\ calls[c].raised = <<SchemaError>>
       /\ calls[c].outcome.threw
       /\ calls[c].outcome.error[1].originalError = <<SchemaError>>

=============================================================================
